---- MODULE Spec2Model ----
(***************************************************************************)
(* Model of the basic (8-bit) image operators of the vision library:       *)
(* thresholding, morphology, border-blob removal, hole filling and blob    *)
(* labelling.  An image is a record [cols, rows, view, data]; data is the  *)
(* row-major pixel array, data[r * cols + c + 1] being pixel (c, r).       *)
(***************************************************************************)
EXTENDS Integers, Sequences, FiniteSets, TLC

VARIABLES
    op,          \* the operator that was called ("none" before the call)
    pc,          \* position inside the running operator
    src,         \* the image_t the src pointer refers to
    dst,         \* the image_t the dst pointer refers to
    aliased,     \* TRUE when src and dst point to the same image_t
    kernel,      \* the structuring element (image_t) of the morphology operators
    connected,   \* eConnected: 4 or 8
    low,         \* threshold(): int32 lower limit
    high,        \* threshold(): int32 upper limit
    input,       \* the pixel data of src at the time of the call
    ret,         \* the value returned by the operator
    changes,     \* labelBlobs_basic: the changes flag
    currentBlob, \* labelBlobs_basic: the next label to hand out
    run,         \* number of the labelBlobs call on this image (1 or 2)
    firstRet,    \* the value returned by the first labelBlobs call
    args,        \* the other arguments of the call, a record (<<>> when none)
    local        \* the local variables of the running function that live
                 \* from one step to the next, a record (<<>> when none)

vars == <<op, pc, src, dst, aliased, kernel, connected, low, high, input, ret,
          changes, currentBlob, run, firstRet, args, local>>

----------------------------------------------------------------------------
(* Bounds of the model *)

\* threshold: images have at most ThrMaxPixels pixels
ThrMaxPixels == 3
\* threshold2Means, thresholdOtsu: images have at most MeansMaxPixels pixels
MeansMaxPixels == 4
\* morphology: images have at most MorphMaxPixels pixels
MorphMaxPixels == 4
\* morphology: largest kernel is KernelMax x KernelMax (odd sizes only)
KernelMax == 3
\* removeBorderBlobs, fillHoles: all images of at most BorderMaxPixels pixels
BorderMaxPixels == 9
\* removeBorderBlobs, fillHoles: framed images of FrameSide x FrameSide pixels
FrameSide == 4
\* labelBlobs: all images of at most LabelMaxPixels pixels
LabelMaxPixels == 8
\* labelBlobs: images with ManyDots - 1 and with ManyDots single pixels
ManyDots == 255
\* labelBlobs: the images with many single pixels have DotCols columns
DotCols == 32

\* binaryEdgeDetect: images have at most EdgeMaxPixels pixels
EdgeMaxPixels == 9

\* centroid: all labelled images of at most CentroidMaxPixels pixels
CentroidMaxPixels == 6
\* centroid: images of CircleSide x CircleSide pixels that hold a filled circle
CircleSide == 7
\* centroid: the circles have a radius of at most CircleMaxRadius
CircleMaxRadius == 2

\* WBFE_evaluate: images have at most EvalMaxPixels pixels
EvalMaxPixels == 8

\* waterShed: images have at most WsMaxPixels pixels, and those of a single
\* row or column at most WsMaxLine
WsMaxPixels == 6

WsMaxLine == 3

\* termination of removeBorderBlobs and fillHoles: square images of
\* LiveSide x LiveSide pixels and images of at most LiveMaxLine pixels
LiveSide == 3

LiveMaxLine == 2

\* termination of threshold2Means: images have at most TwoMeansMaxPixels pixels
TwoMeansMaxPixels == 3

\* termination of labelBlobs: images have at most LabelLiveMaxPixels pixels,
\* and those of a single row or column at most LabelLiveMaxLine
LabelLiveMaxPixels == 6

LabelLiveMaxLine == 3

\* blobAnalyse: images have at most AnalyseMaxPixels pixels
AnalyseMaxPixels == 6

\* invert and gamma: images have at most PointMaxPixels pixels
PointMaxPixels == 5

\* allocation: images have at most HeapMaxPixels pixels, kernels at most
\* HeapMaxKernel, and at most HeapMaxCalls operators are called in a row
HeapMaxPixels == 2
HeapMaxKernel == 3
HeapMaxCalls == 3

\* histogram: images have HistSide columns and rows, or one more row, or
\* one more row and one column less
HistSide == 256

----------------------------------------------------------------------------
(* C arithmetic *)

\* conversion to uint8_t (basic_pixel_t)
U8(x) == x % 256

\* conversion of an int32 to uint32_t; the value is kept as its two 16-bit
\* halves <<high, low>>
U32(x) == <<(x \div 65536) % 65536, x % 65536>>

U32IsZero(u) == u[1] = 0 /\ u[2] = 0

\* u - 1 for a uint32_t u > 0
U32Dec(u) == IF u[2] > 0 THEN <<u[1], u[2] - 1>> ELSE <<u[1] - 1, 65535>>

\* C integer division truncates toward zero
CDiv(a, b) == IF a >= 0 THEN a \div b ELSE -((-a) \div b)

----------------------------------------------------------------------------
(* Images *)

IMGVIEW == {"CLIP", "BINARY", "LABELED"}

\* BASIC_PIXEL(img, c, r)
BASIC_PIXEL(img, c, r) == img.data[r * img.cols + c + 1]

NofPixels(img) == img.rows * img.cols

\* all pixel arrays of n pixels with values in vals
PixelArrays(n, vals) == [1..n -> vals]

\* an image as the caller hands it in
Image(c, r, d) == [cols |-> c, rows |-> r, view |-> "CLIP", data |-> d]

\* newBasicImage: the data is not initialised; fill stands for what the
\* allocator left there
newBasicImage(c, r, fill) ==
    [cols |-> c, rows |-> r, view |-> "CLIP", data |-> [i \in 1..(r * c) |-> fill]]

NoImage == [cols |-> 0, rows |-> 0, view |-> "CLIP", data |-> <<>>]

\* what a write through the dst pointer does to the two images
Store(newDst) ==
    /\ dst' = newDst
    /\ src' = IF aliased THEN newDst ELSE src

----------------------------------------------------------------------------
(* Thresholding *)

ThresholdTestStrict(v, lo, hi) == v > lo /\ v < hi

\* the test of threshold_basic
ThresholdTest(v, lo, hi) == v >= lo /\ v <= hi

\* The pixel loop of threshold_basic: i counts the pixels left, out holds the
\* pixels written through d so far.  A pixel is read through s before it is
\* written through d and is not read again, so sdata serves for both the
\* case of one image and the case of two.
RECURSIVE ThresholdLoop(_, _, _, _, _)
ThresholdLoop(sdata, lo, hi, i, out) ==
    IF i = 0 THEN out
    ELSE ThresholdLoop(sdata, lo, hi, i - 1,
                       Append(out, IF ThresholdTest(sdata[Len(out) + 1], lo, hi)
                                   THEN 1 ELSE 0))

threshold_basic(s, d, lo, hi) ==
    [d EXCEPT !.view = "BINARY",
              !.data = ThresholdLoop(s.data, lo, hi, s.rows * s.cols, <<>>)]

\* threshold(): the dispatcher converts the int32 limits to basic_pixel_t
threshold(s, d, lo, hi) == threshold_basic(s, d, U8(lo), U8(hi))

\* histogram_basic: bin v of the histogram, a uint16_t counter incremented
\* once for every pixel with the value v
HistogramBin(data, v) ==
    Cardinality({ i \in 1..Len(data) : data[i] = v }) % 65536

\* the grey values that occur in a pixel array
GreyValuesOf(data) == { data[i] : i \in 1..Len(data) }

\* the lowest and the highest pixel, as the first loop of
\* threshold2Means_basic and of contrastStretchFast_basic finds them
\* (min starts at 255 and max at 0)
MinPixel(data) == CHOOSE m \in GreyValuesOf(data) \cup {255} :
                      \A v \in GreyValuesOf(data) \cup {255} : m <= v

MaxPixel(data) == CHOOSE m \in GreyValuesOf(data) \cup {0} :
                      \A v \in GreyValuesOf(data) \cup {0} : m >= v

\* the sum of hist[i] * i over the grey values i of values: a turn of the
\* loop over i = 255..0 whose bin is 0 adds 0, so that the sum is taken over
\* values that occur
RECURSIVE SumBins(_, _)
SumBins(data, values) ==
    IF values = {} THEN 0
    ELSE LET i == CHOOSE v \in values : TRUE
         IN  HistogramBin(data, i) * i + SumBins(data, values \ {i})

\* the sum of hist[i] over the grey values i of values
RECURSIVE CountBins(_, _)
CountBins(data, values) ==
    IF values = {} THEN 0
    ELSE LET i == CHOOSE v \in values : TRUE
         IN  HistogramBin(data, i) + CountBins(data, values \ {i})

\* a binarisation that takes the values the other way round
BinarizeSwapped(v, T, brightness) == IF v >= T THEN brightness ELSE 1 - brightness

\* threshold on T, taking the low or high values based on the brightness
\* setting (0 = bright, 1 = dark)
Binarize(v, T, brightness) == IF v >= T THEN 1 - brightness ELSE brightness

\* the last loop of threshold2Means_basic and of thresholdOtsu_basic
BinarizeAll(s, d, T, brightness) ==
    [d EXCEPT !.view = "BINARY",
              !.data = SubSeq([i \in 1..(s.rows * s.cols) |->
                                  Binarize(s.data[i], T, brightness)],
                              1, s.rows * s.cols)]

\* threshold2Means_basic: T = (max - min) / 2, a basic_pixel_t
InitialT(data) == U8(CDiv(MaxPixel(data) - MinPixel(data), 2))

\* threshold2Means_basic, one turn of while(1): the sums and counts of the
\* pixels above T (right) and below T (left), and new_T when neither count
\* is 0
TwoMeans(data, T) ==
    LET above == { i \in GreyValuesOf(data) : i > T }
        below == { i \in GreyValuesOf(data) : i < T }
        right       == SumBins(data, above)
        right_count == CountBins(data, above)
        left        == SumBins(data, below)
        left_count  == CountBins(data, below)
    IN  [right |-> right, right_count |-> right_count,
         left |-> left, left_count |-> left_count,
         new_T |-> IF right_count = 0 \/ left_count = 0 THEN 0
                   ELSE U8(((right \div right_count) + (left \div left_count)) \div 2)]

\* thresholdOtsu_basic: BCV = N_back * N_object * (mean_back - mean_object)^2
\* as the fraction <<numerator, denominator>>; a mean is 0 when its count
\* is 0.  With sum the sum of all pixels and N their number.
BCV(N_object, sum_object, N, sum) ==
    LET N_back   == N - N_object
        sum_back == sum - sum_object
    IN  IF N_object = 0 /\ N_back = 0 THEN <<0, 1>>
        ELSE IF N_object = 0
        THEN <<0, 1>>
        ELSE IF N_back = 0
        THEN <<0, 1>>
        ELSE <<(sum_back * N_object - sum_object * N_back)
                 * (sum_back * N_object - sum_object * N_back),
               N_back * N_object>>

\* a > b for two fractions with positive denominators
Greater(a, b) == a[1] * b[2] > b[1] * a[2]

\* thresholdOtsu_basic: the loop over the thresholds 255 - i = 0..255, its
\* state being [N_object, sum_object, max_BCV, best_threshold].  A turn whose
\* bin is 0 leaves N_object and sum_object as they are and finds the BCV of
\* the turn before it, which is not above max_BCV: the state changes only in
\* the turns of the grey values that occur, taken here in rising order.
RECURSIVE OtsuTurns(_, _, _)
OtsuTurns(data, values, st) ==
    IF values = {} THEN st
    ELSE LET t   == CHOOSE v \in values : \A w \in values : v <= w
             n   == st.N_object + HistogramBin(data, t)
             sm  == st.sum_object + HistogramBin(data, t) * t
             bcv == BCV(n, sm, Len(data), SumBins(data, GreyValuesOf(data)))
             hit == Greater(bcv, st.max_BCV)
         IN  OtsuTurns(data, values \ {t},
                       [N_object |-> n, sum_object |-> sm,
                        max_BCV |-> IF hit THEN bcv ELSE st.max_BCV,
                        best_threshold |-> IF hit THEN t ELSE st.best_threshold])

\* thresholdOtsu_basic: the threshold the loop ends with
BestThreshold(data) ==
    OtsuTurns(data, GreyValuesOf(data),
              [N_object |-> 0, sum_object |-> 0, max_BCV |-> <<0, 1>>,
               best_threshold |-> 0]).best_threshold

----------------------------------------------------------------------------
(* Morphology *)

ErodeHitAnyKernel(kv, wv) == wv = 0

\* erode_basic: the test that clears the result, *k++ == 1 && *w == 0
ErodeHit(kv, wv) == kv = 1 /\ wv = 0

\* dilate_basic: the test that sets the result, *k++ == 1 && *w == 1
DilateHit(kv, wv) == kv = 1 /\ wv = 1

\* the window position is outside the image border
OutsideBorder(s, col, row, w_col, w_row) ==
    \/ col + w_col < 0
    \/ col + w_col >= s.cols
    \/ row + w_row < 0
    \/ row + w_row >= s.rows

\* if(++w_col > kernel->cols / 2) { w_col = -kernel->cols / 2; w_row++; }
NextWCol(k, w_col) ==
    IF w_col + 1 > CDiv(k.cols, 2) THEN CDiv(-k.cols, 2) ELSE w_col + 1

NextWRow(k, w_col, w_row) ==
    IF w_col + 1 > CDiv(k.cols, 2) THEN w_row + 1 ELSE w_row

\* The window loop of erode_basic for the pixel (col, row): w_counter counts
\* the kernel pixels left, ki is the index the pointer k is at.
RECURSIVE ErodeWindow(_, _, _, _, _, _, _, _)
ErodeWindow(s, k, col, row, w_counter, ki, w_col, w_row) ==
    IF w_counter = 0 THEN 1
    ELSE IF OutsideBorder(s, col, row, w_col, w_row)
         THEN ErodeWindow(s, k, col, row, w_counter - 1, ki + 1,
                          NextWCol(k, w_col), NextWRow(k, w_col, w_row))
         ELSE IF ErodeHit(k.data[ki], BASIC_PIXEL(s, col + w_col, row + w_row))
              THEN 0
              ELSE ErodeWindow(s, k, col, row, w_counter - 1, ki + 1,
                               NextWCol(k, w_col), NextWRow(k, w_col, w_row))

\* The window loop of dilate_basic for the pixel (col, row).
RECURSIVE DilateWindow(_, _, _, _, _, _, _, _)
DilateWindow(s, k, col, row, w_counter, ki, w_col, w_row) ==
    IF w_counter = 0 THEN 0
    ELSE IF OutsideBorder(s, col, row, w_col, w_row)
         THEN DilateWindow(s, k, col, row, w_counter - 1, ki + 1,
                           NextWCol(k, w_col), NextWRow(k, w_col, w_row))
         ELSE IF DilateHit(k.data[ki], BASIC_PIXEL(s, col + w_col, row + w_row))
              THEN 1
              ELSE DilateWindow(s, k, col, row, w_counter - 1, ki + 1,
                                NextWCol(k, w_col), NextWRow(k, w_col, w_row))

\* The pixel loop of erode_basic: i counts the pixels left, (col, row) is the
\* pixel s and d point at, out holds the pixels written through d so far.
RECURSIVE ErodeLoop(_, _, _, _, _, _)
ErodeLoop(s, k, i, col, row, out) ==
    IF i = 0 THEN out
    ELSE LET result == ErodeWindow(s, k, col, row, k.cols * k.rows, 1,
                                   CDiv(-k.cols, 2), CDiv(-k.rows, 2))
         IN  ErodeLoop(s, k, i - 1,
                       IF col + 1 = s.cols THEN 0 ELSE col + 1,
                       IF col + 1 = s.cols THEN row + 1 ELSE row,
                       Append(out, result))

\* The pixel loop of dilate_basic.
RECURSIVE DilateLoop(_, _, _, _, _, _)
DilateLoop(s, k, i, col, row, out) ==
    IF i = 0 THEN out
    ELSE LET result == DilateWindow(s, k, col, row, k.cols * k.rows, 1,
                                    CDiv(-k.cols, 2), CDiv(-k.rows, 2))
         IN  DilateLoop(s, k, i - 1,
                        IF col + 1 = s.cols THEN 0 ELSE col + 1,
                        IF col + 1 = s.cols THEN row + 1 ELSE row,
                        Append(out, result))

\* erode_basic, src and dst being different images of the same size: every
\* pixel of dst is written once, in raster order
erode_basic(s, d, k) ==
    [d EXCEPT !.view = "BINARY",
              !.data = ErodeLoop(s, k, s.cols * s.rows, 0, 0, <<>>)]

\* dilate_basic, src and dst being different images of the same size
dilate_basic(s, d, k) ==
    [d EXCEPT !.view = "BINARY",
              !.data = DilateLoop(s, k, s.cols * s.rows, 0, 0, <<>>)]

\* open_basic: erode into a new image tmp, dilate tmp into dst.  erode_basic
\* writes every pixel of tmp, so what newBasicImage left in it is never read.
open_basic(s, d, k) ==
    LET tmp == erode_basic(s, newBasicImage(s.cols, s.rows, 2), k)
    IN  dilate_basic(tmp, d, k)

\* close_basic: dilate into a new image tmp, erode tmp into dst
close_basic(s, d, k) ==
    LET tmp == dilate_basic(s, newBasicImage(s.cols, s.rows, 2), k)
    IN  erode_basic(tmp, d, k)

----------------------------------------------------------------------------
(* Miscellaneous operators *)

\* setSelectedToValue_basic with src and dst the same image
setSelectedToValue_basic(data, selected, value) ==
    LET out == [i \in 1..Len(data) |-> IF data[i] = selected THEN value ELSE data[i]]
    IN  SubSeq(out, 1, Len(data))

\* copy_basic for images of the same size: returns at once when the two
\* share their data, else copies type, view and every pixel
copy_basic(s, d) ==
    IF aliased THEN d ELSE [d EXCEPT !.view = s.view, !.data = s.data]

\* one neighbour test of neighbourCount_basic: 1 when the guard holds and the
\* pixel at (c, r) has the value pixel
Neighbour(img, guard, c, r, pixel) ==
    IF guard /\ BASIC_PIXEL(img, c, r) = pixel THEN 1 ELSE 0

\* neighbourCount_basic
neighbourCount_basic(img, c, r, pixel, conn) ==
      Neighbour(img, r - 1 >= 0, c, r - 1, pixel)
    + Neighbour(img, c - 1 >= 0, c - 1, r, pixel)
    + Neighbour(img, r + 1 < img.rows, c, r + 1, pixel)
    + Neighbour(img, c + 1 < img.cols, c + 1, r, pixel)
    + (IF conn = 8
       THEN   Neighbour(img, r - 1 >= 0 /\ c - 1 >= 0, c - 1, r - 1, pixel)
            + Neighbour(img, r - 1 >= 0 /\ c + 1 < img.cols, c + 1, r - 1, pixel)
            + Neighbour(img, r + 1 < img.rows /\ c - 1 >= 0, c - 1, r + 1, pixel)
            + Neighbour(img, r + 1 < img.rows /\ c + 1 < img.cols, c + 1, r + 1, pixel)
       ELSE 0)

\* the offset r * cols + c lies in the pixel array
InArray(img, c, r) == r * img.cols + c >= 0 /\ r * img.cols + c < NofPixels(img)

\* neighbourCount_basic called at (c, r) reads outside the pixel array: one of
\* the positions its guards let through is not in the array
NeighbourOutside(img, c, r, conn) ==
    \/ r - 1 >= 0 /\ ~InArray(img, c, r - 1)
    \/ c - 1 >= 0 /\ ~InArray(img, c - 1, r)
    \/ r + 1 < img.rows /\ ~InArray(img, c, r + 1)
    \/ c + 1 < img.cols /\ ~InArray(img, c + 1, r)
    \/ /\ conn = 8
       /\ \/ r - 1 >= 0 /\ c - 1 >= 0 /\ ~InArray(img, c - 1, r - 1)
          \/ r - 1 >= 0 /\ c + 1 < img.cols /\ ~InArray(img, c + 1, r - 1)
          \/ r + 1 < img.rows /\ c - 1 >= 0 /\ ~InArray(img, c - 1, r + 1)
          \/ r + 1 < img.rows /\ c + 1 < img.cols /\ ~InArray(img, c + 1, r + 1)

----------------------------------------------------------------------------
(* Border-blob removal and hole filling *)

\* The state of a loop over the pixels: d is the image behind the dst
\* pointer, flag is the flag the loop sets when it writes (changes or
\* border_marked), outside is TRUE once the loop has read or written outside
\* the pixel array.
Loop(d, flag, outside) == [d |-> d, flag |-> flag, outside |-> outside]

\* the pixel *s at offset at: src and dst are one image when aliased
SrcPixel(s, d, at) == IF aliased THEN d.data[at + 1] ELSE s.data[at + 1]

\* A border loop of removeBorderBlobs_basic and fillHoles_basic:
\*   while(i-- > 0) { if(*s == from) { *d = 2; flag = 1; } s += step; d += step; }
\* i is a uint32_t, at is the offset of s and d in their arrays.
RECURSIVE BorderLoop(_, _, _, _, _, _, _)
BorderLoop(s, d, from, i, at, step, flag) ==
    IF U32IsZero(i) THEN Loop(d, flag, FALSE)
    ELSE IF at < 0 \/ at >= NofPixels(s) THEN Loop(d, flag, TRUE)
    ELSE IF SrcPixel(s, d, at) = from
         THEN BorderLoop(s, [d EXCEPT !.data[at + 1] = 2], from,
                         U32Dec(i), at + step, step, 1)
         ELSE BorderLoop(s, d, from, U32Dec(i), at + step, step, flag)

\* The four border loops in the order of the code: top row, left column,
\* right column, bottom row.  A loop that leaves the array ends the run.
MarkBorder(s, d, from) ==
    LET top    == BorderLoop(s, d, from, U32(s.cols), 0, 1, 0)
        left   == BorderLoop(s, top.d, from, U32(s.rows - 2), s.cols, s.cols,
                             top.flag)
        right  == BorderLoop(s, left.d, from, U32(s.rows - 2), s.cols * 2 - 1,
                             s.cols, left.flag)
        bottom == BorderLoop(s, right.d, from, U32(s.cols),
                             s.cols * (s.rows - 1), 1, right.flag)
    IN  IF top.outside THEN top
        ELSE IF left.outside THEN left
        ELSE IF right.outside THEN right
        ELSE bottom

\* removeBorderBlobs_basic: the test of the two scans,
\*   *s == 1 && neighbourCount_basic(dst, col, row, 2, connected) > 0
RbbTest(s, d, at, col, row, conn) ==
    SrcPixel(s, d, at) = 1 /\ neighbourCount_basic(d, col, row, 2, conn) > 0

\* fillHoles_basic: the test of the two scans,
\*   *d == 0 && neighbourCount_basic(dst, col, row, 2, connected) > 0
FhTest(d, at, col, row, conn) ==
    d.data[at + 1] = 0 /\ neighbourCount_basic(d, col, row, 2, conn) > 0

\* the test of a scan of the operator named by which
ScanTest(which, s, d, at, col, row, conn) ==
    IF which = "removeBorderBlobs" THEN RbbTest(s, d, at, col, row, conn)
    ELSE FhTest(d, at, col, row, conn)

\* the first operand of the test is a pixel that passes, so that the second
\* operand, the call of neighbourCount_basic, is evaluated
ScanCounts(which, s, d, at) ==
    IF which = "removeBorderBlobs" THEN SrcPixel(s, d, at) = 1
    ELSE d.data[at + 1] = 0

\* The scan from the top left to the bottom right over the inner pixels:
\* i is the uint32_t pixel counter, at the offset of s and d, (col, row) the
\* position the code takes them to be at.
RECURSIVE ScanDown(_, _, _, _, _, _, _, _, _)
ScanDown(which, s, d, conn, i, at, col, row, flag) ==
    IF U32IsZero(i) THEN Loop(d, flag, FALSE)
    ELSE IF at < 0 \/ at >= NofPixels(s) THEN Loop(d, flag, TRUE)
    ELSE IF ScanCounts(which, s, d, at) /\ NeighbourOutside(d, col, row, conn)
         THEN Loop(d, flag, TRUE)
    ELSE LET hit  == ScanTest(which, s, d, at, col, row, conn)
             wrap == (col + 1 = s.cols - 1)
         IN  ScanDown(which, s,
                      IF hit THEN [d EXCEPT !.data[at + 1] = 2] ELSE d,
                      conn, U32Dec(i),
                      IF wrap THEN at + 3 ELSE at + 1,
                      IF wrap THEN 1 ELSE col + 1,
                      IF wrap THEN row + 1 ELSE row,
                      IF hit THEN 1 ELSE flag)

\* The scan from the bottom right to the top left over the inner pixels.
RECURSIVE ScanUp(_, _, _, _, _, _, _, _, _)
ScanUp(which, s, d, conn, i, at, col, row, flag) ==
    IF U32IsZero(i) THEN Loop(d, flag, FALSE)
    ELSE IF at < 0 \/ at >= NofPixels(s) THEN Loop(d, flag, TRUE)
    ELSE IF ScanCounts(which, s, d, at) /\ NeighbourOutside(d, col, row, conn)
         THEN Loop(d, flag, TRUE)
    ELSE LET hit  == ScanTest(which, s, d, at, col, row, conn)
             wrap == (col - 1 = 0)
         IN  ScanUp(which, s,
                    IF hit THEN [d EXCEPT !.data[at + 1] = 2] ELSE d,
                    conn, U32Dec(i),
                    IF wrap THEN at - 3 ELSE at - 1,
                    IF wrap THEN s.cols - 2 ELSE col - 1,
                    IF wrap THEN row - 1 ELSE row,
                    IF hit THEN 1 ELSE flag)

\* One turn of while(changes--): changes is 0 after the test, the scan down
\* and the scan up set it to 1 when they write.
ScanBoth(which, s, d, conn) ==
    LET count == U32((s.cols - 2) * (s.rows - 2))
        down  == ScanDown(which, s, d, conn, count, s.cols + 1, 1, 1, 0)
        up    == ScanUp(which, s, down.d, conn, count,
                        s.cols * (s.rows - 1) - 2, s.cols - 2, s.rows - 2,
                        down.flag)
    IN  IF down.outside THEN down ELSE up

\* fillHoles_basic: copy over ones where dst has zeroes
CopyOnes(s, d) ==
    [d EXCEPT !.data = [i \in 1..NofPixels(s) |->
                           IF SrcPixel(s, d, i - 1) = 1 /\ d.data[i] = 0
                           THEN 1 ELSE d.data[i]]]

----------------------------------------------------------------------------
(* Blob labelling *)

\* labelBlobs_basic: the number of neighbours a pixel at (col, row) is taken
\* to have (max_neighbours_corner, max_neighbours_edge, max_neighbours)
CurrentMaxNeighbours(img, col, row, conn) ==
    IF \/ (row = 0 /\ col = 0)
       \/ (row = img.rows - 1 /\ col = img.cols - 1)
       \/ (row = img.rows - 1 /\ col = 0)
       \/ (row = 0 /\ col = img.cols - 1)
    THEN (IF conn = 4 THEN 2 ELSE 3)
    ELSE IF row = 0 \/ col = 0 \/ row = img.rows - 1 \/ col = img.cols - 1
    THEN (IF conn = 4 THEN 3 ELSE 5)
    ELSE (IF conn = 4 THEN 4 ELSE 8)

\* the values of the neighbours of (c, r) that neighbourCount_basic looks at
NeighbourValues(img, c, r, conn) ==
    { BASIC_PIXEL(img, p[1], p[2]) :
        p \in { q \in {<<c, r - 1>>, <<c - 1, r>>, <<c, r + 1>>, <<c + 1, r>>} \cup
                      (IF conn = 8
                       THEN {<<c - 1, r - 1>>, <<c + 1, r - 1>>,
                             <<c - 1, r + 1>>, <<c + 1, r + 1>>}
                       ELSE {}) :
                  /\ q[1] >= 0 /\ q[1] < img.cols
                  /\ q[2] >= 0 /\ q[2] < img.rows } }

\* a search that stops at the highest neighbour value in 1..254, whatever the
\* limit
HighestNeighbour(img, col, row, limit, conn) ==
    LET found == { j \in NeighbourValues(img, col, row, conn) : j >= 1 /\ j < 255 }
    IN  IF found = {} THEN 0
        ELSE CHOOSE j \in found : \A k \in found : j >= k

\* for(j = 1; j < limit; j++) if(neighbourCount(dst, col, row, j, connected) > 0):
\* the first j the loop stops at is the lowest neighbour value in 1..limit-1;
\* 0 when the loop runs to its end
LowestNeighbour(img, col, row, limit, conn) ==
    LET found == { j \in NeighbourValues(img, col, row, conn) : j >= 1 /\ j < limit }
    IN  IF found = {} THEN 0
        ELSE CHOOSE j \in found : \A k \in found : j <= k

\* the test for a new blob: all neighbours of the pixel are 0 or 255
NewBlob(img, col, row, conn) ==
    neighbourCount_basic(img, col, row, 0, conn)
        + neighbourCount_basic(img, col, row, 255, conn)
    = CurrentMaxNeighbours(img, col, row, conn)

\* the state of a scan of labelBlobs_basic: the image behind dst,
\* currentBlob, changes, and whether the scan has returned 0 (too many blobs)
Labels(d, blob, flag, abort) ==
    [d |-> d, blob |-> blob, flag |-> flag, abort |-> abort]

\* a scan that never gives up
TooManyBlobsNever(blob) == FALSE

\* if(currentBlob == 255): too many (intermediate) blobs found
TooManyBlobs(blob) == blob = 255

\* What the body of a scan does at the pixel at offset at, (col, row):
\* jmax is the limit of the search for the blob a 255 pixel belongs to
\* (currentBlob in the scan down, 255 in the scan up).
LabelPixel(st, conn, at, col, row, jmax) ==
    LET v == st.d.data[at + 1]
    IN  IF v = 255
        THEN IF NewBlob(st.d, col, row, conn)
             THEN IF TooManyBlobs(st.blob)
                  THEN Labels(st.d, st.blob, st.flag, TRUE)
                  ELSE Labels([st.d EXCEPT !.data[at + 1] = U8(st.blob)],
                              st.blob + 1, 1, FALSE)
             ELSE LET j == LowestNeighbour(st.d, col, row, jmax, conn)
                  IN  IF j > 0
                      THEN Labels([st.d EXCEPT !.data[at + 1] = j], st.blob, 1, FALSE)
                      ELSE st
        ELSE IF v > 1
        THEN LET j == LowestNeighbour(st.d, col, row, v, conn)
             IN  IF j > 0
                 THEN Labels([st.d EXCEPT !.data[at + 1] = j], st.blob, 1, FALSE)
                 ELSE st
        ELSE st

\* process image left top to right bottom.  The loop of the code visits the
\* rows * cols pixels in raster order, counting col up and starting the next
\* row when col reaches cols; LabelRowDown is its run over the rest of one
\* row from (col, row), LabelDown its run over the rows from row on.  The
\* state after a pixel or a row is drawn from a set of one element, which
\* has it computed once.
RECURSIVE LabelRowDown(_, _, _, _)
LabelRowDown(st, conn, col, row) ==
    IF col >= st.d.cols \/ st.abort THEN st
    ELSE CHOOSE out \in
             { LabelRowDown(next, conn, col + 1, row) :
                 next \in {LabelPixel(st, conn, row * st.d.cols + col, col, row,
                                      st.blob)} } : TRUE

RECURSIVE LabelDown(_, _, _)
LabelDown(st, conn, row) ==
    IF row >= st.d.rows \/ st.abort THEN st
    ELSE CHOOSE out \in
             { LabelDown(next, conn, row + 1) :
                 next \in {LabelRowDown(st, conn, 0, row)} } : TRUE

\* process image right bottom to top left: col counts down and the row
\* above starts when col reaches -1
RECURSIVE LabelRowUp(_, _, _, _)
LabelRowUp(st, conn, col, row) ==
    IF col = -1 \/ st.abort THEN st
    ELSE CHOOSE out \in
             { LabelRowUp(next, conn, col - 1, row) :
                 next \in {LabelPixel(st, conn, row * st.d.cols + col, col, row,
                                      255)} } : TRUE

RECURSIVE LabelUp(_, _, _)
LabelUp(st, conn, row) ==
    IF row = -1 \/ st.abort THEN st
    ELSE CHOOSE out \in
             { LabelUp(next, conn, row - 1) :
                 next \in {LabelRowUp(st, conn, st.d.cols - 1, row)} } : TRUE

\* One turn of while(changes--): changes is 0 after the test.
LabelBoth(d, conn, blob) ==
    CHOOSE out \in
        { IF down.abort THEN down ELSE LabelUp(down, conn, d.rows - 1) :
            down \in {LabelDown(Labels(d, blob, 0, FALSE), conn, 0)} } : TRUE

\* a relabelling that numbers the blobs from 0
RelabelTurnFromZero(labelled, st, i) ==
    IF HistogramBin(labelled, i) > 0
    THEN [blobCount |-> st.blobCount + 1,
          data |-> setSelectedToValue_basic(st.data, i, st.blobCount)]
    ELSE st

\* Make the blob labels continuous, the state of the loop being
\* [blobCount, data]: turn i of for(i = 1; i < 255; i++), with the histogram
\* of the labelled image taken before the loop
RelabelTurn(labelled, st, i) ==
    IF HistogramBin(labelled, i) > 0
    THEN [blobCount |-> st.blobCount + 1,
          data |-> setSelectedToValue_basic(st.data, i, st.blobCount + 1)]
    ELSE st

\* the turns first..last of the loop, in this order: the turns first..mid
\* take st to the state half, and the turns mid+1..last go on from half
\* (half is drawn from a set of one state, which keeps the depth of the
\* evaluation at the logarithm of the number of turns)
RECURSIVE RelabelTurns(_, _, _, _)
RelabelTurns(labelled, st, first, last) ==
    IF first = last THEN RelabelTurn(labelled, st, first)
    ELSE LET mid == (first + last) \div 2
         IN  CHOOSE end \in { RelabelTurns(labelled, half, mid + 1, last) :
                                half \in { RelabelTurns(labelled, st, first, mid) } } :
                 TRUE

\* the whole loop, i = 1..254
Relabel(labelled) ==
    RelabelTurns(labelled, [blobCount |-> 0, data |-> labelled], 1, 254)

----------------------------------------------------------------------------
(* Binary edge detection *)

\* the test of binaryEdgeDetect_basic with the FOUR neighbours only
EdgeInteriorFour(img, col, row, conn) ==
    neighbourCount_basic(img, col, row, 0, 4) = 0

\* binaryEdgeDetect_basic: the foreground pixel at (col, row) is marked 2
\* when it has no neighbour with the value 0
EdgeInterior(img, col, row, conn) ==
    neighbourCount_basic(img, col, row, 0, conn) = 0

\* binaryEdgeDetect_basic: the pixel loop from offset at on; the neighbours
\* are read from src, which is the image being written when aliased
RECURSIVE EdgeLoop(_, _, _, _)
EdgeLoop(s, d, conn, at) ==
    IF at >= NofPixels(s) THEN d
    ELSE LET from == IF aliased THEN d ELSE s
             col  == at % s.cols
             row  == at \div s.cols
             v    == IF SrcPixel(s, d, at) = 1
                     THEN IF EdgeInterior(from, col, row, conn) THEN 2 ELSE 1
                     ELSE 0
         IN  EdgeLoop(s, [d EXCEPT !.data[at + 1] = v], conn, at + 1)

\* binaryEdgeDetect_basic: the loop, then setSelectedToValue_basic(dst, dst, 2, 0)
binaryEdgeDetect_basic(s, d, conn) ==
    LET e == EdgeLoop(s, d, conn, 0)
    IN  [e EXCEPT !.data = setSelectedToValue_basic(e.data, 2, 0)]

----------------------------------------------------------------------------
(* Blob metrology *)

\* the moments m_00, m_01 and m_10 of centroid_basic
Moments(m_00, m_01, m_10) == [m_00 |-> m_00, m_01 |-> m_01, m_10 |-> m_10]

\* centroid_basic: the pixel loop from offset at on
RECURSIVE CentroidLoop(_, _, _, _)
CentroidLoop(img, blobnr, at, m) ==
    IF at >= NofPixels(img) THEN m
    ELSE LET col == at % img.cols
             row == at \div img.cols
         IN  CentroidLoop(img, blobnr, at + 1,
                          IF img.data[at + 1] = blobnr
                          THEN Moments(m.m_00 + 1, m.m_01 + row, m.m_10 + col)
                          ELSE m)

\* what the conversion of a NaN to int32_t may yield (undefined behaviour:
\* 0 on some machines, INT32_MIN on others)
NaNAsInt32 == {0, -2147483647 - 1}

\* a conversion that drops the + 0.5f
RoundedDown(m, m_00) ==
    IF m_00 = 0 THEN NaNAsInt32 ELSE { m \div m_00 }

\* centroid_basic: (int32_t) ((float) m / (float) m_00 + 0.5f), the set of
\* values the conversion may yield.  The moments of the images checked are
\* far below 2^24 and the quotient differs from the nearest k + 0.5 by at
\* least 1 / (2 * m_00), far more than a float rounds, so that the result is
\* the integer part of m / m_00 + 1/2.  With m_00 = 0 the quotient is a NaN.
Rounded(m, m_00) ==
    IF m_00 = 0 THEN NaNAsInt32 ELSE { (2 * m + m_00) \div (2 * m_00) }

\* the filled discrete circle of radius r about (cx, cy)
Disc(cx, cy, r) ==
    { p \in ((cx - r)..(cx + r)) \X ((cy - r)..(cy + r)) :
        (p[1] - cx) * (p[1] - cx) + (p[2] - cy) * (p[2] - cy) <= r * r }

----------------------------------------------------------------------------
(* The operators of the evaluation pipeline *)

\* convolution_basic: the destination pixel for the sum result, which is
\* clamped to 0..255 and converted with (basic_pixel_t) (result + 0.5)
ConvolvedPixel(result) ==
    IF result > 255 THEN 255 ELSE IF result < 0 THEN 0 ELSE result

\* gaussianBlur_basic with kernelSize = 1: the kernel has the one weight
\* k / k = 1.0f, and convolution_basic sums *w * 1.0 for every pixel
gaussianBlur_basic(s, d, kernelSize) ==
    [d EXCEPT !.data = SubSeq([i \in 1..NofPixels(s) |-> ConvolvedPixel(s.data[i] * 1)],
                              1, NofPixels(s))]

\* contrastStretchFast_basic: max after 'if(min == max) max += 1', a
\* basic_pixel_t
StretchMax(data) ==
    IF MinPixel(data) = MaxPixel(data) THEN U8(MaxPixel(data) + 1)
    ELSE MaxPixel(data)

\* contrastStretchFast_basic: LUT[i] = (uint8_t) ((i - min) * stretch_factor
\* + 0.5f), for the entries i >= min that the last loop reads (i - min is a
\* uint32_t).  The images have at most two grey values: the product is then
\* 0 or, within a float's rounding, 255.
StretchLUT(i, min, max) ==
    IF i = min THEN 0
    ELSE U8((2 * (i - min) * 255 + (max - min)) \div (2 * (max - min)))

\* contrastStretchFast_basic
contrastStretchFast_basic(s, d) ==
    LET min == MinPixel(s.data)
        max == StretchMax(s.data)
    IN  [d EXCEPT !.data = SubSeq([i \in 1..NofPixels(s) |->
                                      StretchLUT(s.data[i], min, max)],
                                  1, NofPixels(s))]

\* gamma_basic: LUT[i] is powf(i / 255.0, g) * c * 255 + 0.5 as an int32_t,
\* kept in 0..255; for g = 1 the power is i / 255.0 itself
GammaLUT(i, c, g) ==
    IF c * i > 255 THEN 255 ELSE IF c * i < 0 THEN 0 ELSE c * i

\* gamma_basic and invert_basic work on words of four pixels: the number of
\* pixels in the cols * rows / 4 words of an image
InWords(img) == 4 * (NofPixels(img) \div 4)

\* gamma_basic
gamma_basic(s, d, c, g) ==
    [d EXCEPT !.data = SubSeq([i \in 1..NofPixels(s) |->
                                  IF i <= InWords(s) THEN GammaLUT(s.data[i], c, g)
                                  ELSE d.data[i]],
                              1, NofPixels(s))]

\* invert_basic: pixel i of a word of the result.  1 - pixel is an int; for
\* a pixel above 1 it is negative and its sign bits, shifted, fill the
\* higher bytes of the word.
Inverted(data, i) ==
    LET first == i - ((i - 1) % 4)
    IN  IF \E j \in first..(i - 1) : data[j] > 1 THEN 255
        ELSE U8(1 - data[i])

\* invert_basic
invert_basic(s, d) ==
    [d EXCEPT !.view = "BINARY",
              !.data = SubSeq([i \in 1..NofPixels(s) |->
                                  IF i <= InWords(s) THEN Inverted(s.data, i)
                                  ELSE d.data[i]],
                              1, NofPixels(s))]

\* int8_t
I8(n) == IF n % 256 > 127 THEN (n % 256) - 256 ELSE n % 256

\* the offsets of the pixels of blob blobnr
BlobOffsets(img, blobnr) ==
    { at \in 0..(NofPixels(img) - 1) : img.data[at + 1] = blobnr }

\* blobAnalyse_basic: the number of pixels of the blob that have n
\* neighbours with the value 0 under FOUR
WithNeighbours(img, blobnr, n) ==
    Cardinality({ at \in BlobOffsets(img, blobnr) :
                    neighbourCount_basic(img, at % img.cols, at \div img.cols, 0, 4) = n })

\* conversion of an int to uint16_t
U16(x) == x % 65536

\* blobAnalyse_basic: the bounding rows and columns
Bounding(min_row, max_row, min_col, max_col) ==
    [min_row |-> min_row, max_row |-> max_row,
     min_col |-> min_col, max_col |-> max_col]

\* blobAnalyse_basic, track bounding rows / columns: the loop over the
\* pixels from offset at on;
\*   if(col < min_col) min_col = col; else if(col > max_col) max_col = col;
\* and the same for the rows
RECURSIVE BoundingLoop(_, _, _, _)
BoundingLoop(img, blobnr, at, b) ==
    IF at >= NofPixels(img) THEN b
    ELSE IF img.data[at + 1] # blobnr THEN BoundingLoop(img, blobnr, at + 1, b)
    ELSE LET col == at % img.cols
             row == at \div img.cols
         IN  BoundingLoop(img, blobnr, at + 1,
                 Bounding(IF row < b.min_row THEN U16(row) ELSE b.min_row,
                          IF row < b.min_row THEN b.max_row
                          ELSE IF row > b.max_row THEN U16(row) ELSE b.max_row,
                          IF col < b.min_col THEN U16(col) ELSE b.min_col,
                          IF col < b.min_col THEN b.max_col
                          ELSE IF col > b.max_col THEN U16(col) ELSE b.max_col))

\* blobAnalyse_basic: height and width (uint16_t), nof_pixels (a uint16_t)
\* and the perimeter in thousandths: 1.0f for a pixel with one neighbour 0,
\* sqrt(2) for one with two, 0.5f / (1.0f + sqrt(2)) for one with three
blobAnalyse_basic(img, blobnr) ==
    LET b == BoundingLoop(img, blobnr, 0,
                          Bounding(U16(img.rows - 1), 0, U16(img.cols - 1), 0))
    IN
    [height |-> U16(b.max_row - b.min_row + 1),
     width  |-> U16(b.max_col - b.min_col + 1),
     nof_pixels |-> Cardinality(BlobOffsets(img, blobnr)) % 65536,
     perimeter  |-> 1000 * WithNeighbours(img, blobnr, 1)
                    + 1414 * WithNeighbours(img, blobnr, 2)
                    + 207 * WithNeighbours(img, blobnr, 3)]

\* the sum over the pixels at the offsets ats of (col - cc)^p * (row - rc)^q
\* times m_00^(p + q), for p + q = 2: with cc = m_10 / m_00 and
\* rc = m_01 / m_00 every term is a product of two of the integers
\* m_00 * col - m_10 and m_00 * row - m_01
RECURSIVE CentralSum(_, _, _, _, _)
CentralSum(img, ats, m, p, q) ==
    IF ats = {} THEN 0
    ELSE LET at == CHOOSE a \in ats : TRUE
             x  == m.m_00 * (at % img.cols) - m.m_10
             y  == m.m_00 * (at \div img.cols) - m.m_01
         IN  (IF p = 2 THEN x * x ELSE IF q = 2 THEN y * y ELSE x * y)
             + CentralSum(img, ats \ {at}, m, p, q)

\* normalizedCentralMoments_basic for p + q = 2, times m_00^4: the central
\* moment is divided by powf(m_00, 2), the same for the three moments
normalizedCentralMoments_basic(img, blobnr, p, q) ==
    CentralSum(img, BlobOffsets(img, blobnr),
               CentroidLoop(img, blobnr, 0, Moments(0, 0, 0)), p, q)

\* a float score: a NaN, minus infinity, or the number v / 1000
NaN == [kind |-> "nan", v |-> 0]

MinusInfinity == [kind |-> "-inf", v |-> 0]

Finite(v) == [kind |-> "finite", v |-> v]

\* WBFE_evaluate: roundness_metric = 4 * M_PI * nof_pixels / perimeter^2 in
\* thousandths, for a perimeter that is not 0
Roundness(info) ==
    (12566 * info.nof_pixels * 1000)
        \div ((info.perimeter * info.perimeter) \div 1000)

\* WBFE_evaluate: eccentricity_metric = ((m20 - m02)^2 + 4 * m11^2) /
\* (m20 + m02)^2 in thousandths, for m20 + m02 that is not 0
Eccentricity(m20, m02, m11) ==
    LET x == CDiv(1000 * (m20 - m02), m20 + m02)
        y == CDiv(1000 * 2 * m11, m20 + m02)
    IN  (x * x + y * y) \div 1000

\* WBFE_evaluate: score = (1 - roundness_metric + eccentricity_metric) / 2
\* of blob blobnr.  A perimeter of 0 makes the roundness infinite, and
\* m20 + m02 = 0 (all pixels in one place) makes the eccentricity 0 / 0.
Score(img, blobnr, info) ==
    LET m20 == normalizedCentralMoments_basic(img, blobnr, 2, 0)
        m02 == normalizedCentralMoments_basic(img, blobnr, 0, 2)
        m11 == normalizedCentralMoments_basic(img, blobnr, 1, 1)
    IN  IF m20 + m02 = 0 THEN NaN
        ELSE IF info.perimeter = 0 THEN MinusInfinity
        ELSE Finite(CDiv(1000 - Roundness(info) + Eccentricity(m20, m02, m11), 2))

\* two scores in thousandths that are too close for the approximations
\* above (pi, sqrt(2), the divisions) to tell which float is the smaller
CloseScores(a, b) ==
    LET diff == IF a >= b THEN a - b ELSE b - a
        size == (IF a >= 0 THEN a ELSE 0 - a) + (IF b >= 0 THEN b ELSE 0 - b)
    IN  50 * diff <= size + 1000

\* WBFE_evaluate: the outcomes of score < best_score; a comparison with a
\* NaN is false
LessThan(a, b) ==
    IF a.kind = "nan" \/ b.kind = "nan" THEN {FALSE}
    ELSE IF a.kind = "-inf" THEN {b.kind # "-inf"}
    ELSE IF b.kind = "-inf" THEN {FALSE}
    ELSE IF CloseScores(a.v, b.v) THEN BOOLEAN
    ELSE {a.v < b.v}

\* WBFE_evaluate: the loop for(i = 1; i <= blob_count; i++) from turn i on;
\* states holds the values [best_match, best_score] may have
RECURSIVE ScoreLoop(_, _, _, _, _)
ScoreLoop(img, i, blob_count, area_threshold, states) ==
    IF i > blob_count THEN states
    ELSE LET info == blobAnalyse_basic(img, U8(i))
         IN  IF info.nof_pixels < area_threshold
             THEN ScoreLoop(img, i + 1, blob_count, area_threshold, states)
             ELSE LET score == Score(img, U8(i), info)
                  IN  ScoreLoop(img, i + 1, blob_count, area_threshold,
                                UNION { { IF hit
                                          THEN [best_match |-> I8(i), best_score |-> score]
                                          ELSE st :
                                          hit \in LessThan(score, st.best_score) } :
                                        st \in states })

\* WBFE_evaluate: the values best_match may have after the loop
BestMatches(img, blob_count, area_threshold) ==
    { st.best_match :
        st \in ScoreLoop(img, 1, blob_count, area_threshold,
                         { [best_match |-> -1, best_score |-> Finite(1000000)] }) }

----------------------------------------------------------------------------
(* Watershed transformation *)

\* the state of a scan of waterShed_basic: the image behind dst,
\* current_blob, changes, whether the scan has returned 0 (too many blobs),
\* and the offsets of the pixels that were set to 0 as part of a watershed
WaterShed(d, blob, flag, abort, lines) ==
    [d |-> d, blob |-> blob, flag |-> flag, abort |-> abort, lines |-> lines]

\* the first loop: all pixels of src up to maxh become 255 in dst, the others 0
Flooded(data, maxh) ==
    LET out == [i \in 1..Len(data) |-> IF data[i] <= maxh THEN 255 ELSE 0]
    IN  SubSeq(out, 1, Len(data))

\* if(max < maxh) maxh = max
AdjustedMaxh(data, maxh) == IF MaxPixel(data) < maxh THEN MaxPixel(data) ELSE maxh

\* the new blob of steps 1 and 5: return 0 at the 255th blob, else
\* *d = current_blob++ and changes = 1
Spawn(st, at) ==
    IF st.blob = 255
    THEN WaterShed(st.d, st.blob, st.flag, TRUE, st.lines)
    ELSE WaterShed([st.d EXCEPT !.data[at + 1] = U8(st.blob)],
                   st.blob + 1, 1, FALSE, st.lines)

\* the pixel becomes part of the neighbouring blob with the lowest number:
\* blob_neighbour starts at 255 and LowestNeighbour is 0 when no k in
\* 1..current_blob-1 is a neighbour
Join(st, conn, at, col, row) ==
    LET blob_neighbour == LowestNeighbour(st.d, col, row, st.blob, conn)
    IN  IF blob_neighbour > 0 /\ st.d.data[at + 1] # blob_neighbour
        THEN WaterShed([st.d EXCEPT !.data[at + 1] = blob_neighbour],
                       st.blob, 1, FALSE, st.lines)
        ELSE st

\* the blobs k in 1..current_blob-1 with neighbourCount(dst, col, row, k) > 0
BlobNeighbours(st, conn, col, row) ==
    { k \in NeighbourValues(st.d, col, row, conn) : k >= 1 /\ k < st.blob }

\* if(blob_neighbour != 0 && *d != blob_neighbour) of step 5
MeetOther(v, blob_neighbour) == v # blob_neighbour

\* 1 blob neighbour: part of that blob; more than 1 blob neighbour: part of
\* the watershed (*d = 0, changes = 1, break).  always: step 4 assigns
\* inside the loop over k and sets changes whenever a neighbour is found;
\* step 5 assigns after the loop and only when *d differs.
Meet(st, conn, at, col, row, always) ==
    LET found == BlobNeighbours(st, conn, col, row)
        first == CHOOSE k \in found : \A j \in found : k <= j
    IN  IF found = {} THEN st
        ELSE IF Cardinality(found) > 1
        THEN WaterShed([st.d EXCEPT !.data[at + 1] = 0], st.blob, 1, FALSE,
                       st.lines \cup {at})
        ELSE IF always \/ MeetOther(st.d.data[at + 1], first)
        THEN WaterShed([st.d EXCEPT !.data[at + 1] = first], st.blob, 1, FALSE,
                       st.lines)
        ELSE st

\* a step 5 that also visits the pixels that hold 0
Step5TestAny(s, d, h) == s = h

\* if(*s == h && *d != 0) of step 5
Step5Test(s, d, h) == s = h /\ d # 0

\* What the body of a scan of step 1, 2, 4 or 5 does at the pixel at offset
\* at, (col, row), when the water stands at height h.
WaterShedPixel(step, st, s, h, conn, at, col, row) ==
    LET g == s.data[at + 1]
        v == st.d.data[at + 1]
        new == NewBlob(st.d, col, row, conn)
    IN  CASE step = 1 ->
               IF g = h
               THEN IF new /\ v = 255 THEN Spawn(st, at)
                    ELSE Join(st, conn, at, col, row)
               ELSE st
          [] step = 2 ->
               IF g <= h /\ ~new THEN Join(st, conn, at, col, row) ELSE st
          [] step = 4 ->
               IF g <= h /\ v = 255 /\ ~new
               THEN Meet(st, conn, at, col, row, TRUE)
               ELSE st
          [] step = 5 ->
               IF Step5Test(g, v, h)
               THEN IF new /\ v = 255 THEN Spawn(st, at)
                    ELSE IF neighbourCount_basic(s, col, row, g, conn) > 0
                    THEN Join(st, conn, at, col, row)
                    ELSE Meet(st, conn, at, col, row, FALSE)
               ELSE st

\* process image LT->RB: the run of the loop over the rest of one row from
\* (col, row), and over the rows from row on
RECURSIVE WaterShedRow(_, _, _, _, _, _, _)
WaterShedRow(step, st, s, h, conn, col, row) ==
    IF col >= st.d.cols \/ st.abort THEN st
    ELSE WaterShedRow(step,
                      WaterShedPixel(step, st, s, h, conn,
                                     row * st.d.cols + col, col, row),
                      s, h, conn, col + 1, row)

RECURSIVE WaterShedScan(_, _, _, _, _, _)
WaterShedScan(step, st, s, h, conn, row) ==
    IF row >= st.d.rows \/ st.abort THEN st
    ELSE WaterShedScan(step, WaterShedRow(step, st, s, h, conn, 0, row),
                       s, h, conn, row + 1)

\* Step 3: label_mapping[i] of the blob numbers i in 1..254 with hist[i] > 0
\* is their rank; blob_count is the number of them
CountedBlobs(data) == { i \in 1..254 : HistogramBin(data, i) > 0 }

RankedLabels(data, blobs) ==
    LET out == [i \in 1..Len(data) |->
                   IF data[i] \in blobs
                   THEN Cardinality({ k \in blobs : k <= data[i] })
                   ELSE data[i]]
    IN  SubSeq(out, 1, Len(data))

ContinuousLabels(data) ==
    CHOOSE out \in { RankedLabels(data, blobs) : blobs \in {CountedBlobs(data)} } :
        TRUE

\* the offset of the first pixel, LT->RB, that holds v
FirstPixel(data, v) ==
    LET at == { i \in 1..Len(data) : data[i] = v }
    IN  CHOOSE i \in at : \A k \in at : i <= k

\* firsts holds <<FirstPixel(data, v), v>> for the values v of data other
\* than 0 and 255: label_mapping[v] is the rank of v by its first pixel
FirstLabels(data, firsts) ==
    LET first(v) == (CHOOSE f \in firsts : f[2] = v)[1]
        out == [i \in 1..Len(data) |->
                   IF data[i] # 0 /\ data[i] # 255
                   THEN Cardinality({ f \in firsts : f[1] <= first(data[i]) })
                   ELSE data[i]]
    IN  SubSeq(out, 1, Len(data))

\* the last relabelling: label_mapping[*d] = ++blob_count at the first pixel,
\* LT->RB, that holds *d (not 0, not 255)
RasterLabels(data) ==
    CHOOSE out \in { FirstLabels(data, firsts) :
                       firsts \in {{ <<FirstPixel(data, v), v>> :
                                       v \in GreyValuesOf(data) \ {0, 255} }} } :
        TRUE

\* the end of waterShed_basic: the remaining markers (255) are set to 0 and
\* the blobs are relabelled and recounted
Relabelled(data) == RasterLabels(setSelectedToValue_basic(data, 255, 0))

RecountedBlobs(data) == Cardinality(GreyValuesOf(data) \ {0, 255})

----------------------------------------------------------------------------
(* Memory (de)allocation *)
\* a block of the heap: the image that newBasicImage or newFloatImage
\* allocated as the id-th one (the image_t and its data are allocated and
\* freed together)
Block(id, type, cols, rows) ==
    [id |-> id, type |-> type, cols |-> cols, rows |-> rows]

\* the heap after newBasicImage / newFloatImage: one more live block
Allocated(heap, type, cols, rows) ==
    heap \union {Block(Cardinality({b.id : b \in heap}) + 1, type, cols, rows)}

\* deleteImage of the blocks imgs, as the caller does at the end
deleteImage(heap, imgs) == heap \ imgs

\* deleteImage is never called by an operator: what stays on the heap after
\* open_basic / close_basic is the tmp they allocated
MorphHeap(heap, s) == Allocated(heap, "basic", s.cols, s.rows)

\* and after gaussianBlur_basic the kernel
BlurHeap(heap, kernelSize) == Allocated(heap, "float", kernelSize, kernelSize)

----------------------------------------------------------------------------
(* Histogram of a whole image *)
\* histogram_basic: the array hist after the call.  The bins of the grey
\* values that do not occur stay at the 0 of the first loop.
histogram_basic(data) ==
    LET occurring == GreyValuesOf(data)
    IN  [v \in 0..255 |-> IF v \in occurring THEN HistogramBin(data, v) ELSE 0]

\* labelBlobs_basic, the loop that makes the labels continuous: blobCount
\* after for(i = 1; i < 255; i++) if(hist[i] > 0) blobCount++
BlobCount(hist) == Cardinality({ i \in 1..254 : hist[i] > 0 })

----------------------------------------------------------------------------
(* Inputs *)

Binary == {0, 1}

\* what a freshly allocated or reused destination may hold
Fills == {0, 1, 2}

\* grey values the threshold inputs are drawn from
GreyValues == {0, 1, 10, 200, 255}

\* all images of at most maxPixels pixels with values in vals
Images(maxPixels, vals) ==
    UNION { { Image(rc[2], rc[1], d) : d \in PixelArrays(rc[1] * rc[2], vals) } :
            rc \in { x \in (1..maxPixels) \X (1..maxPixels) :
                        x[1] * x[2] <= maxPixels } }

OddSizes == { n \in 1..KernelMax : n % 2 = 1 }

\* all binary kernels of odd width and height
Kernels ==
    UNION { { Image(c, r, d) : d \in PixelArrays(r * c, Binary) } :
            <<r, c>> \in OddSizes \X OddSizes }

\* before the call: no operator has run, nothing is returned or counted
Unused ==
    /\ op = "none"
    /\ pc = "call"
    /\ ret = 0
    /\ changes = 0
    /\ currentBlob = 0
    /\ run = 1
    /\ firstRet = 0

\* the values of the variables an operator does not use
Idle ==
    /\ Unused
    /\ args = <<>>
    /\ local = <<>>

----------------------------------------------------------------------------
(* Specification of threshold *)

InitThreshold ==
    /\ Idle
    /\ src \in Images(ThrMaxPixels, GreyValues)
    /\ aliased \in BOOLEAN
    /\ \E fill \in Fills :
          dst = IF aliased THEN src ELSE newBasicImage(src.cols, src.rows, fill)
    /\ low \in GreyValues
    /\ high \in GreyValues
    /\ kernel = NoImage
    /\ connected = 4
    /\ input = src.data

\* threshold(src, dst, low, high)
Threshold ==
    /\ pc = "call"
    /\ Store(threshold(src, dst, low, high))
    /\ op' = "threshold"
    /\ pc' = "done"
    /\ UNCHANGED <<aliased, kernel, connected, low, high, input, ret,
                   changes, currentBlob, run, firstRet, args, local>>

NextThreshold == Threshold

SpecThreshold == InitThreshold /\ [][NextThreshold]_vars

----------------------------------------------------------------------------
(* Specification of threshold2Means and thresholdOtsu *)

\* the images are drawn with at most two grey values: the float operands of
\* thresholdOtsu_basic are then the same in every turn with a nonzero BCV,
\* so that rounding cannot change the outcome of a comparison
MeansPalettes == { {10, 200}, {100, 200} }

\* eBrightness: BRIGHT = 0, DARK
Brightness == {0, 1}

\* what a division by zero is taken to yield when it does not fault
ZeroDivisorQuotients == {0, 255}

InitMeans ==
    /\ Unused
    /\ \E palette \in MeansPalettes : src \in Images(MeansMaxPixels, palette)
    /\ aliased \in BOOLEAN
    /\ \E fill \in Fills :
          dst = IF aliased THEN src ELSE newBasicImage(src.cols, src.rows, fill)
    /\ \E brightness \in Brightness : args = [brightness |-> brightness]
    /\ local = <<>>
    /\ kernel = NoImage
    /\ connected = 4
    /\ low = 0
    /\ high = 0
    /\ input = src.data

MeansFrame ==
    UNCHANGED <<aliased, kernel, connected, low, high, input, ret, changes,
                currentBlob, run, firstRet, args>>

\* threshold2Means(src, dst, brightness): up to the first turn of while(1)
MeansCall ==
    /\ pc = "call"
    /\ op' = "threshold2Means"
    /\ pc' = "means"
    /\ local' = [T |-> InitialT(src.data)]
    /\ UNCHANGED <<src, dst>>
    /\ MeansFrame

\* a while(1) without the break: new_T is stored whether it differs or not
MeansNextAgain(right, left) ==
    /\ local' = [T |-> U8((right + left) \div 2)]
    /\ pc' = "means"
    /\ UNCHANGED <<src, dst>>

\* threshold2Means: the end of a turn of while(1) with the means right and
\* left; the last loop runs when the threshold did not change
MeansNext(right, left) ==
    LET new_T == U8((right + left) \div 2)
    IN  IF new_T # local.T
        THEN /\ local' = [T |-> new_T]
             /\ pc' = "means"
             /\ UNCHANGED <<src, dst>>
        ELSE /\ Store(BinarizeAll(src, dst, local.T, args.brightness))
             /\ pc' = "done"
             /\ UNCHANGED local

\* threshold2Means: one turn of while(1).  A division by zero has undefined
\* behaviour: the call faults, or the quotient is some value.
MeansTurn ==
    /\ op = "threshold2Means"
    /\ pc = "means"
    /\ LET m == TwoMeans(src.data, local.T)
       IN  \/ /\ m.right_count # 0
              /\ m.left_count # 0
              /\ MeansNext(m.right \div m.right_count, m.left \div m.left_count)
           \/ /\ (m.right_count = 0 \/ m.left_count = 0)
              /\ pc' = "fault"
              /\ UNCHANGED <<src, dst, local>>
           \/ /\ (m.right_count = 0 \/ m.left_count = 0)
              /\ \E qr, ql \in ZeroDivisorQuotients :
                    MeansNext(IF m.right_count = 0 THEN qr
                              ELSE m.right \div m.right_count,
                              IF m.left_count = 0 THEN ql
                              ELSE m.left \div m.left_count)
    /\ UNCHANGED op
    /\ MeansFrame

\* thresholdOtsu(src, dst, brightness)
Otsu ==
    /\ pc = "call"
    /\ op' = "thresholdOtsu"
    /\ pc' = "done"
    /\ LET best_threshold == BestThreshold(src.data)
       IN  /\ local' = [best_threshold |-> best_threshold]
           /\ Store(BinarizeAll(src, dst, best_threshold, args.brightness))
    /\ MeansFrame

NextMeans == MeansCall \/ MeansTurn \/ Otsu

SpecMeans == InitMeans /\ [][NextMeans]_vars

----------------------------------------------------------------------------
(* Specification of the morphology operators *)

InitMorph ==
    /\ Idle
    /\ src \in Images(MorphMaxPixels, Binary)
    /\ aliased = FALSE
    /\ dst = newBasicImage(src.cols, src.rows, 2)
    /\ kernel \in Kernels
    /\ low = 0
    /\ high = 0
    /\ connected = 4
    /\ input = src.data

MorphFrame ==
    UNCHANGED <<aliased, kernel, connected, low, high, input, ret,
                changes, currentBlob, run, firstRet, args, local>>

\* morph_erode(src, dst, kernel)
Erode ==
    /\ pc = "call"
    /\ Store(erode_basic(src, dst, kernel))
    /\ op' = "erode"
    /\ pc' = "done"
    /\ MorphFrame

\* morph_dilate(src, dst, kernel)
Dilate ==
    /\ pc = "call"
    /\ Store(dilate_basic(src, dst, kernel))
    /\ op' = "dilate"
    /\ pc' = "done"
    /\ MorphFrame

\* morph_open(src, dst, kernel)
Open ==
    /\ pc = "call"
    /\ Store(open_basic(src, dst, kernel))
    /\ op' = "open"
    /\ pc' = "done"
    /\ MorphFrame

\* morph_close(src, dst, kernel)
Close ==
    /\ pc = "call"
    /\ Store(close_basic(src, dst, kernel))
    /\ op' = "close"
    /\ pc' = "done"
    /\ MorphFrame

NextMorph == Erode \/ Dilate \/ Open \/ Close

SpecMorph == InitMorph /\ [][NextMorph]_vars

----------------------------------------------------------------------------
(* Specification of removeBorderBlobs and fillHoles *)

\* the images of side x side pixels whose frame holds v everywhere, or v
\* everywhere but at one pixel, and whose inner pixels are arbitrary
Framed(side) ==
    LET n       == side * side
        onFrame == { i \in 1..n : \/ (i - 1) \div side \in {0, side - 1}
                                  \/ (i - 1) % side \in {0, side - 1} }
    IN  { Image(side, side, d) :
            d \in { a \in PixelArrays(n, Binary) :
                      \E v \in Binary :
                          Cardinality({ i \in onFrame : a[i] # v }) <= 1 } }

InitBorder ==
    /\ Idle
    /\ src \in Images(BorderMaxPixels, Binary) \cup Framed(FrameSide)
    /\ aliased \in BOOLEAN
    /\ \E fill \in Fills :
          dst = IF aliased THEN src ELSE newBasicImage(src.cols, src.rows, fill)
    /\ connected \in {4, 8}
    /\ kernel = NoImage
    /\ low = 0
    /\ high = 0
    /\ input = src.data

BorderFrame ==
    UNCHANGED <<aliased, kernel, connected, low, high, input, ret,
                currentBlob, run, firstRet, args, local>>

\* A loop that runs outside the pixel array has undefined behaviour: the
\* call faults, or it returns with the array overwritten (here: with one of
\* the values of Fills).
Undefined ==
    \/ /\ pc' = "fault"
       /\ UNCHANGED <<src, dst>>
    \/ /\ pc' = "done"
       /\ \E fill \in Fills :
             Store([dst EXCEPT !.data = [i \in 1..Len(dst.data) |-> fill]])

\* removeBorderBlobs: set border pixels with value 1 to value 2
RbbMark ==
    /\ pc = "call"
    /\ op' = "removeBorderBlobs"
    /\ LET m == MarkBorder(src, dst, 1)
       IN  \/ /\ m.outside
              /\ Undefined
              /\ UNCHANGED changes
           \/ /\ ~m.outside
              /\ Store(m.d)
              /\ changes' = 1
              /\ pc' = "scan"
    /\ BorderFrame

\* removeBorderBlobs: one turn of while(changes--)
RbbScan ==
    /\ op = "removeBorderBlobs"
    /\ pc = "scan"
    /\ changes = 1
    /\ LET r == ScanBoth("removeBorderBlobs", src, dst, connected)
       IN  \/ /\ r.outside
              /\ Undefined
              /\ UNCHANGED changes
           \/ /\ ~r.outside
              /\ Store(r.d)
              /\ changes' = r.flag
              /\ pc' = "scan"
    /\ UNCHANGED op
    /\ BorderFrame

\* removeBorderBlobs: the loop has ended; set all flagged pixels to value 0
RbbReturn ==
    /\ op = "removeBorderBlobs"
    /\ pc = "scan"
    /\ changes = 0
    /\ Store([dst EXCEPT !.data = setSelectedToValue_basic(dst.data, 2, 0)])
    /\ pc' = "done"
    /\ UNCHANGED <<op, changes>>
    /\ BorderFrame

\* fillHoles: mark the border pixels with value 0; fill the entire image and
\* return when there are none, else copy the ones of src into dst
FhMark ==
    /\ pc = "call"
    /\ op' = "fillHoles"
    /\ LET m == MarkBorder(src, dst, 0)
       IN  \/ /\ m.outside
              /\ Undefined
              /\ UNCHANGED changes
           \/ /\ ~m.outside
              /\ m.flag = 0
              /\ Store([m.d EXCEPT !.data = setSelectedToValue_basic(m.d.data, 0, 1)])
              /\ pc' = "done"
              /\ UNCHANGED changes
           \/ /\ ~m.outside
              /\ m.flag = 1
              /\ Store(CopyOnes(src, m.d))
              /\ changes' = 1
              /\ pc' = "scan"
    /\ BorderFrame

\* fillHoles: one turn of while(changes--)
FhScan ==
    /\ op = "fillHoles"
    /\ pc = "scan"
    /\ changes = 1
    /\ LET r == ScanBoth("fillHoles", src, dst, connected)
       IN  \/ /\ r.outside
              /\ Undefined
              /\ UNCHANGED changes
           \/ /\ ~r.outside
              /\ Store(r.d)
              /\ changes' = r.flag
              /\ pc' = "scan"
    /\ UNCHANGED op
    /\ BorderFrame

\* fillHoles: the loop has ended; set the remaining zeroes to ones and the
\* marked pixels to zeroes
FhReturn ==
    /\ op = "fillHoles"
    /\ pc = "scan"
    /\ changes = 0
    /\ Store([dst EXCEPT !.data =
                 setSelectedToValue_basic(
                     setSelectedToValue_basic(dst.data, 0, 1), 2, 0)])
    /\ pc' = "done"
    /\ UNCHANGED <<op, changes>>
    /\ BorderFrame

NextBorder == RbbMark \/ RbbScan \/ RbbReturn \/ FhMark \/ FhScan \/ FhReturn

SpecBorder == InitBorder /\ [][NextBorder]_vars

----------------------------------------------------------------------------
(* Specification of labelBlobs *)

\* every other pixel, like the squares of one colour of a checkerboard:
\* single pixels under connectivity 4, one blob under connectivity 8
CheckerOn(col, row) == (col + row) % 2 = 0

\* every other pixel of every other row: single pixels under 4 and under 8
LatticeOn(col, row) == col % 2 = 0 /\ row % 2 = 0

\* the image of rows x cols pixels that holds 1 at the first dots positions
\* of the pattern, in raster order, and 0 elsewhere
Dotted(c, r, pattern, dots) ==
    LET all == { i \in 1..(r * c) :
                   IF pattern = "checker"
                   THEN CheckerOn((i - 1) % c, (i - 1) \div c)
                   ELSE LatticeOn((i - 1) % c, (i - 1) \div c) }
    IN  Image(c, r, [i \in 1..(r * c) |->
                        IF i \in all /\ Cardinality({ k \in all : k <= i }) <= dots
                        THEN 1 ELSE 0])

\* images of DotCols columns with ManyDots - 1 and with ManyDots single pixels
ManyBlobs ==
    { Dotted(DotCols, (2 * (ManyDots + 1)) \div DotCols + 1, "checker", k) :
        k \in {ManyDots - 1, ManyDots} }
    \cup
    { Dotted(DotCols, 2 * ((2 * (ManyDots + 1)) \div DotCols + 1), "lattice", k) :
        k \in {ManyDots - 1, ManyDots} }

InitLabel ==
    /\ Idle
    /\ src \in Images(LabelMaxPixels, Binary) \cup ManyBlobs
    /\ aliased \in BOOLEAN
    /\ dst = IF aliased THEN src ELSE newBasicImage(src.cols, src.rows, 2)
    /\ connected \in {4, 8}
    /\ kernel = NoImage
    /\ low = 0
    /\ high = 0
    /\ input = src.data

LabelFrame == UNCHANGED <<aliased, kernel, connected, low, high, args, local>>

\* labelBlobs: copy src into dst and set all 1 to 255
LabelCall ==
    /\ pc = "call"
    /\ op' = "labelBlobs"
    /\ LET c == copy_basic(src, dst)
       IN  Store([c EXCEPT !.view = "LABELED",
                           !.data = setSelectedToValue_basic(c.data, 1, 255)])
    /\ changes' = 1
    /\ currentBlob' = 1
    /\ pc' = "scan"
    /\ UNCHANGED <<input, ret, run, firstRet>>
    /\ LabelFrame

\* labelBlobs: one turn of while(changes--); returns 0 when a new blob is
\* found with currentBlob at its limit
LabelScan ==
    /\ op = "labelBlobs"
    /\ pc = "scan"
    /\ changes = 1
    /\ \E st \in {LabelBoth(dst, connected, currentBlob)} :
          /\ Store(st.d)
          /\ currentBlob' = st.blob
          /\ changes' = st.flag
          /\ pc' = IF st.abort THEN "done" ELSE "scan"
          /\ ret' = IF st.abort THEN 0 ELSE ret
    /\ UNCHANGED <<op, input, run, firstRet>>
    /\ LabelFrame

\* labelBlobs: the loop has ended; return 0 when no blobs were found, else
\* make the labels continuous and return their number
LabelReturn ==
    /\ op = "labelBlobs"
    /\ pc = "scan"
    /\ changes = 0
    /\ \/ /\ currentBlob = 1
          /\ ret' = 0
          /\ UNCHANGED <<src, dst>>
       \/ /\ currentBlob # 1
          /\ LET r == Relabel(dst.data)
             IN  /\ ret' = r.blobCount
                 /\ Store([dst EXCEPT !.data = r.data])
    /\ pc' = "done"
    /\ UNCHANGED <<op, changes, currentBlob, input, run, firstRet>>
    /\ LabelFrame

\* The caller maps every nonzero pixel of the labelled image back to 1 and
\* hands the result to labelBlobs once more.
LabelAgain ==
    /\ op = "labelBlobs"
    /\ pc = "done"
    /\ run = 1
    /\ LET again == [dst EXCEPT !.view = "BINARY",
                                !.data = [i \in 1..Len(dst.data) |->
                                             IF dst.data[i] # 0 THEN 1 ELSE 0]]
       IN  /\ src' = again
           /\ dst' = IF aliased THEN again ELSE dst
           /\ input' = again.data
    /\ firstRet' = ret
    /\ run' = 2
    /\ op' = "none"
    /\ pc' = "call"
    /\ UNCHANGED <<ret, changes, currentBlob>>
    /\ LabelFrame

NextLabel == LabelCall \/ LabelScan \/ LabelReturn \/ LabelAgain

SpecLabel == InitLabel /\ [][NextLabel]_vars

----------------------------------------------------------------------------
(* Specification of binaryEdgeDetect *)

InitEdge ==
    /\ Idle
    /\ src \in Images(EdgeMaxPixels, Binary)
    /\ aliased \in BOOLEAN
    /\ \E fill \in Fills :
          dst = IF aliased THEN src ELSE newBasicImage(src.cols, src.rows, fill)
    /\ connected \in {4, 8}
    /\ kernel = NoImage
    /\ low = 0
    /\ high = 0
    /\ input = src.data

\* binaryEdgeDetect(src, dst, connected)
EdgeDetect ==
    /\ pc = "call"
    /\ Store(binaryEdgeDetect_basic(src, dst, connected))
    /\ op' = "binaryEdgeDetect"
    /\ pc' = "done"
    /\ UNCHANGED <<aliased, kernel, connected, low, high, input, ret,
                   changes, currentBlob, run, firstRet, args, local>>

NextEdge == EdgeDetect

SpecEdge == InitEdge /\ [][NextEdge]_vars

----------------------------------------------------------------------------
(* Specification of centroid *)

\* the labels of the blobs centroid is called for
CentroidLabels == {1, 2}

\* the images of side x side pixels that hold a filled circle with one
\* label, which lies inside the image, and at most one pixel with the other
\* label
Circles(side) ==
    { Image(side, side,
            [i \in 1..(side * side) |->
                LET p == <<(i - 1) % side, (i - 1) \div side>>
                IN  IF p \in Disc(c[1], c[2], c[3]) THEN c[4]
                    ELSE IF i = c[5] THEN 3 - c[4]
                    ELSE 0]) :
        c \in { x \in (0..(side - 1)) \X (0..(side - 1)) \X (0..CircleMaxRadius)
                      \X CentroidLabels \X (0..(side * side)) :
                  /\ x[1] - x[3] >= 0
                  /\ x[1] + x[3] <= side - 1
                  /\ x[2] - x[3] >= 0
                  /\ x[2] + x[3] <= side - 1 } }

InitCentroid ==
    /\ Unused
    /\ src \in Images(CentroidMaxPixels, {0} \cup CentroidLabels)
               \cup Circles(CircleSide)
    /\ dst = NoImage
    /\ aliased = FALSE
    /\ \E blobnr \in CentroidLabels : args = [blobnr |-> blobnr]
    /\ local = <<>>
    /\ kernel = NoImage
    /\ connected = 4
    /\ low = 0
    /\ high = 0
    /\ input = src.data

\* centroid(img, blobnr, &cc, &rc): ret holds <<cc, rc>>
Centroid ==
    /\ pc = "call"
    /\ op' = "centroid"
    /\ pc' = "done"
    /\ LET m == CentroidLoop(src, args.blobnr, 0, Moments(0, 0, 0))
       IN  /\ local' = m
           /\ \E cc \in Rounded(m.m_10, m.m_00), rc \in Rounded(m.m_01, m.m_00) :
                 ret' = <<cc, rc>>
    /\ UNCHANGED <<src, dst, aliased, kernel, connected, low, high, input,
                   changes, currentBlob, run, firstRet, args>>

NextCentroid == Centroid

SpecCentroid == InitCentroid /\ [][NextCentroid]_vars

----------------------------------------------------------------------------
(* Specification of WBFE_evaluate *)

\* the stages of WBFE_evaluate in the order of its code
Stages ==
    <<"gaussianBlur", "contrastStretchFast", "gamma", "threshold", "invert",
      "fillHoles", "labelBlobs", "scoring", "centroid">>

\* the grey values of the images handed to WBFE_evaluate
EvalGreys == {10, 200}

\* the values of threshold_param, area_threshold and target
EvalThresholds == {100, 255}

EvalAreas == {1, 3}

EvalTargets == { <<0, 0>>, <<1, 2>> }

\* src holds the image built from the list; every operator works in place
\* on it.  kernel_size = 1, c = 1 and g = 1 throughout.
InitEvaluate ==
    /\ Unused
    /\ src \in Images(EvalMaxPixels, EvalGreys)
    /\ dst = src
    /\ aliased = TRUE
    /\ \E t \in EvalThresholds, a \in EvalAreas, target \in EvalTargets :
          /\ args = [target |-> target, kernel_size |-> 1, c |-> 1, g |-> 1,
                     threshold_param |-> t, area_threshold |-> a]
          /\ high = t
    /\ low = 0
    /\ local = [stage |-> "parse", done |-> <<>>, blob_count |-> 0,
                best_match |-> -1]
    /\ kernel = NoImage
    /\ connected = 8
    /\ input = src.data

EvFrame ==
    UNCHANGED <<aliased, kernel, connected, low, high, input, changes,
                currentBlob, run, firstRet, args>>

\* the stage name has run; next is the stage that follows it
Staged(name, next) ==
    [local EXCEPT !.stage = next, !.done = Append(@, name)]

\* WBFE_evaluate: PyArg_ParseTuple stores threshold_param, a basic_pixel_t,
\* through the format unit "i", which writes an int: undefined behaviour,
\* the bytes next to the variable are overwritten.  The call goes on with
\* the arguments as parsed, or faults.
EvParse ==
    /\ local.stage = "parse"
    /\ pc = "call"
    /\ \/ /\ local' = [local EXCEPT !.stage = "gaussianBlur"]
          /\ UNCHANGED pc
       \/ /\ pc' = "fault"
          /\ UNCHANGED local
    /\ UNCHANGED <<op, src, dst, ret>>
    /\ EvFrame

\* a stage of WBFE_evaluate that is one call of an operator in place
EvStep(name, next, result) ==
    /\ local.stage = name
    /\ pc = "call"
    /\ Store(result)
    /\ op' = name
    /\ local' = Staged(name, next)
    /\ UNCHANGED <<pc, ret>>
    /\ EvFrame

\* 1. gaussianBlur(src, src, kernel_size, sigma)
EvBlur ==
    EvStep("gaussianBlur", "contrastStretchFast",
           gaussianBlur_basic(src, dst, args.kernel_size))

\* 2. contrastStretchFast(src, src)
EvStretch ==
    EvStep("contrastStretchFast", "gamma", contrastStretchFast_basic(src, dst))

\* 3. gamma_evdk(src, src, c, g)
EvGamma ==
    EvStep("gamma", "threshold", gamma_basic(src, dst, args.c, args.g))

\* 4. threshold(src, src, 0, threshold_param)
EvThreshold ==
    EvStep("threshold", "invert", threshold(src, dst, low, high))

\* invert(src, src)
EvInvert ==
    EvStep("invert", "fillHoles", invert_basic(src, dst))

\* 5. fillHoles(src, src, EIGHT), in the steps of fillHoles
EvFillHoles ==
    /\ local.stage = "fillHoles"
    /\ (FhMark \/ FhScan \/ FhReturn)

\* fillHoles has returned
EvFilled ==
    /\ local.stage = "fillHoles"
    /\ op = "fillHoles"
    /\ pc = "done"
    /\ pc' = "call"
    /\ local' = Staged("fillHoles", "labelBlobs")
    /\ UNCHANGED <<op, src, dst, ret>>
    /\ EvFrame

\* 6. blob_count = labelBlobs(src, src, EIGHT), in the steps of labelBlobs
EvLabelBlobs ==
    /\ local.stage = "labelBlobs"
    /\ (LabelCall \/ LabelScan \/ LabelReturn)

\* labelBlobs has returned blob_count
EvLabelled ==
    /\ local.stage = "labelBlobs"
    /\ op = "labelBlobs"
    /\ pc = "done"
    /\ pc' = "call"
    /\ local' = [Staged("labelBlobs", "scoring") EXCEPT !.blob_count = ret]
    /\ UNCHANGED <<op, src, dst, ret, changes, currentBlob>>
    /\ UNCHANGED <<aliased, kernel, connected, low, high, input, run, firstRet, args>>

\* the loop over the blobs: feature extraction and classification
EvScore ==
    /\ local.stage = "scoring"
    /\ pc = "call"
    /\ op' = "scoring"
    /\ \E best_match \in BestMatches(src, local.blob_count, args.area_threshold) :
          local' = [Staged("scoring", "centroid") EXCEPT !.best_match = best_match]
    /\ UNCHANGED <<pc, src, dst, ret>>
    /\ EvFrame

\* cc - target as an int32_t (an overflow wraps)
Offset(cc, target) ==
    IF cc < 0 /\ target > 0 /\ cc + 2147483647 < target - 1
    THEN (cc + 2147483647) + (2147483647 - target) + 2
    ELSE cc - target

\* 7. centroid(src, best_match, &cc, &rc); the offsets are returned
EvCentroid ==
    /\ local.stage = "centroid"
    /\ pc = "call"
    /\ op' = "centroid"
    /\ pc' = "done"
    /\ local' = Staged("centroid", "return")
    /\ LET m == CentroidLoop(src, U8(local.best_match), 0, Moments(0, 0, 0))
       IN  \E cc \in Rounded(m.m_10, m.m_00), rc \in Rounded(m.m_01, m.m_00) :
              ret' = <<Offset(cc, args.target[1]), Offset(rc, args.target[2])>>
    /\ UNCHANGED <<src, dst>>
    /\ EvFrame

NextEvaluate ==
    \/ EvParse
    \/ EvBlur
    \/ EvStretch
    \/ EvGamma
    \/ EvThreshold
    \/ EvInvert
    \/ EvFillHoles
    \/ EvFilled
    \/ EvLabelBlobs
    \/ EvLabelled
    \/ EvScore
    \/ EvCentroid

SpecEvaluate == InitEvaluate /\ [][NextEvaluate]_vars

----------------------------------------------------------------------------
(* The specification of waterShed *)

\* the grey values of the images of waterShed
Heights == {1, 2, 3}

\* the images of ManyBlobs as landscapes: the single pixels lie at the
\* lowest height, all other pixels at the highest
Pits ==
    { Image(b.cols, b.rows,
            SubSeq([i \in 1..Len(b.data) |-> IF b.data[i] = 1 THEN 1 ELSE 3],
                   1, Len(b.data))) : b \in ManyBlobs }

\* the small images
Landscapes ==
    { i \in Images(WsMaxPixels, Heights) :
        (i.rows >= 2 /\ i.cols >= 2) \/ Len(i.data) <= WsMaxLine }

\* dst does not share its data with src.  minh lies neither above maxh nor
\* above the highest pixel of src, so that the number of heights
\* j = maxh - minh, taken after maxh was adjusted, does not wrap around.
\* The water does not rise to the highest height of the images of Pits.
InitWaterShed ==
    /\ Unused
    /\ src \in Landscapes \cup Pits
    /\ aliased = FALSE
    /\ dst = newBasicImage(src.cols, src.rows, 2)
    /\ connected \in {4, 8}
    /\ \E minh \in Heights, maxh \in Heights :
          /\ minh <= maxh
          /\ minh <= MaxPixel(src.data)
          /\ Len(src.data) > WsMaxPixels => maxh < 3
          /\ args = [minh |-> minh, maxh |-> maxh]
    /\ local = [step |-> 0, h |-> 0, maxh |-> 0, j |-> 0, lines |-> {}]
    /\ kernel = NoImage
    /\ low = 0
    /\ high = 0
    /\ input = src.data

WaterShedFrame ==
    UNCHANGED <<src, aliased, kernel, connected, low, high, input, run,
                firstRet, args>>

\* waterShed: the first loop, the view, the adjusted maxh and the start of
\* step 1 at height minh
WaterShedCall ==
    /\ pc = "call"
    /\ op' = "waterShed"
    /\ dst' = [dst EXCEPT !.view = "LABELED",
                          !.data = Flooded(src.data, args.maxh)]
    /\ local' = [step |-> 1, h |-> args.minh,
                 maxh |-> AdjustedMaxh(src.data, args.maxh),
                 j |-> 0, lines |-> {}]
    /\ changes' = 1
    /\ currentBlob' = 1
    /\ pc' = "scan"
    /\ UNCHANGED ret
    /\ WaterShedFrame

\* waterShed: one turn of while(changes--) of step 1, 2, 4 or 5; returns 0
\* when a new blob is needed and current_blob is 255
WaterShedTurn ==
    /\ op = "waterShed"
    /\ pc = "scan"
    /\ changes = 1
    /\ LET st == WaterShedScan(local.step,
                               WaterShed(dst, currentBlob, 0, FALSE, local.lines),
                               src, local.h, connected, 0)
       IN  /\ dst' = st.d
           /\ currentBlob' = st.blob
           /\ changes' = st.flag
           /\ local' = [local EXCEPT !.lines = st.lines]
           /\ IF st.abort
              THEN pc' = "done" /\ ret' = 0
              ELSE UNCHANGED <<pc, ret>>
    /\ UNCHANGED op
    /\ WaterShedFrame

\* waterShed: what follows a while(changes--) that has ended.  After step 1:
\* step 2.  After step 2: step 3, j = maxh - minh and h++.  After step 5:
\* h++.  Then step 4 of the next height while(j-- > 0), and when j is 0 the
\* last relabelling and the return of blob_count.  After step 4: step 5.
WaterShedStep ==
    /\ op = "waterShed"
    /\ pc = "scan"
    /\ changes = 0
    /\ LET counted == IF local.step = 2 THEN ContinuousLabels(dst.data) ELSE dst.data
           j == IF local.step = 2 THEN local.maxh - args.minh ELSE local.j
       IN  IF local.step = 1 \/ local.step = 4
           THEN /\ local' = [local EXCEPT !.step = local.step + 1]
                /\ changes' = 1
                /\ UNCHANGED <<dst, currentBlob, pc, ret>>
           ELSE /\ currentBlob' = IF local.step = 2
                                  THEN Cardinality(CountedBlobs(dst.data)) + 1
                                  ELSE currentBlob
                /\ IF j > 0
                   THEN /\ local' = [local EXCEPT !.step = 4, !.j = j - 1,
                                                  !.h = U8(local.h + 1)]
                        /\ dst' = [dst EXCEPT !.data = counted]
                        /\ changes' = 1
                        /\ UNCHANGED <<pc, ret>>
                   ELSE /\ local' = [local EXCEPT !.j = j, !.h = U8(local.h + 1)]
                        /\ \E out \in {Relabelled(counted)} :
                              /\ dst' = [dst EXCEPT !.data = out]
                              /\ ret' = RecountedBlobs(out)
                        /\ pc' = "done"
                        /\ UNCHANGED changes
    /\ UNCHANGED op
    /\ WaterShedFrame

NextWaterShed == WaterShedCall \/ WaterShedTurn \/ WaterShedStep

SpecWaterShed == InitWaterShed /\ [][NextWaterShed]_vars

----------------------------------------------------------------------------
(* removeBorderBlobs and fillHoles as calls that go on until they return *)

\* the images of side x side pixels
Squares(side) == { Image(side, side, d) : d \in PixelArrays(side * side, Binary) }

InitBorderLive ==
    /\ Idle
    /\ src \in Images(LiveMaxLine, Binary) \cup Squares(LiveSide)
    /\ aliased \in BOOLEAN
    /\ \E fill \in Fills :
          dst = IF aliased THEN src ELSE newBasicImage(src.cols, src.rows, fill)
    /\ connected \in {4, 8}
    /\ kernel = NoImage
    /\ low = 0
    /\ high = 0
    /\ input = src.data

\* a call that can take a step that changes the state takes it
SpecBorderLive == InitBorderLive /\ [][NextBorder]_vars /\ WF_vars(NextBorder)

----------------------------------------------------------------------------
(* threshold2Means as a call that goes on until it returns *)

\* grey values that let the threshold move more than once
TwoMeansGreys == {0, 60, 100, 250}

InitTwoMeansLive ==
    /\ Unused
    /\ src \in Images(TwoMeansMaxPixels, TwoMeansGreys)
    /\ aliased \in BOOLEAN
    /\ dst = IF aliased THEN src ELSE newBasicImage(src.cols, src.rows, 2)
    /\ \E brightness \in Brightness : args = [brightness |-> brightness]
    /\ local = <<>>
    /\ kernel = NoImage
    /\ connected = 4
    /\ low = 0
    /\ high = 0
    /\ input = src.data

NextTwoMeans == MeansCall \/ MeansTurn

\* a call that can take a step that changes the state takes it
SpecTwoMeansLive == InitTwoMeansLive /\ [][NextTwoMeans]_vars /\ WF_vars(NextTwoMeans)

----------------------------------------------------------------------------
(* labelBlobs as a call that goes on until it returns *)

InitLabelLive ==
    /\ Idle
    /\ src \in { i \in Images(LabelLiveMaxPixels, Binary) :
                    (i.rows >= 2 /\ i.cols >= 2) \/ Len(i.data) <= LabelLiveMaxLine }
    /\ aliased \in BOOLEAN
    /\ dst = IF aliased THEN src ELSE newBasicImage(src.cols, src.rows, 2)
    /\ connected \in {4, 8}
    /\ kernel = NoImage
    /\ low = 0
    /\ high = 0
    /\ input = src.data

\* a call that can take a step that changes the state takes it
SpecLabelLive == InitLabelLive /\ [][NextLabel]_vars /\ WF_vars(NextLabel)

----------------------------------------------------------------------------
(* The specification of blobAnalyse *)

\* the labelled images hold the blobs 1 and 2
InitAnalyse ==
    /\ Unused
    /\ src \in Images(AnalyseMaxPixels, {0, 1, 2})
    /\ dst = NoImage
    /\ aliased = FALSE
    /\ \E blobnr \in {1, 2} : args = [blobnr |-> blobnr]
    /\ local = <<>>
    /\ kernel = NoImage
    /\ connected = 4
    /\ low = 0
    /\ high = 0
    /\ input = src.data

\* blobAnalyse(img, blobnr, &blobInfo): ret holds blobInfo
BlobAnalyse ==
    /\ pc = "call"
    /\ op' = "blobAnalyse"
    /\ pc' = "done"
    /\ ret' = blobAnalyse_basic(src, args.blobnr)
    /\ UNCHANGED <<src, dst, aliased, kernel, connected, low, high, input,
                   changes, currentBlob, run, firstRet, args, local>>

NextAnalyse == BlobAnalyse

SpecAnalyse == InitAnalyse /\ [][NextAnalyse]_vars

----------------------------------------------------------------------------
(* The specification of invert and gamma *)

\* the factor c of gamma; the exponent g is 1
Factors == {1, 2}

InitPoint ==
    /\ Unused
    /\ src \in Images(PointMaxPixels, {0, 1, 200})
    /\ aliased \in BOOLEAN
    /\ \E fill \in Fills :
          dst = IF aliased THEN src ELSE newBasicImage(src.cols, src.rows, fill)
    /\ \E c \in Factors : args = [c |-> c, g |-> 1]
    /\ local = <<>>
    /\ kernel = NoImage
    /\ connected = 4
    /\ low = 0
    /\ high = 0
    /\ input = src.data

PointFrame ==
    UNCHANGED <<aliased, kernel, connected, low, high, input, ret, changes,
                currentBlob, run, firstRet, args, local>>

\* invert(src, dst); precondition: src is a binary image
Invert ==
    /\ pc = "call"
    /\ GreyValuesOf(src.data) \subseteq Binary
    /\ op' = "invert"
    /\ pc' = "done"
    /\ Store(invert_basic(src, dst))
    /\ PointFrame

\* gamma_evdk(src, dst, c, g)
Gamma ==
    /\ pc = "call"
    /\ op' = "gamma"
    /\ pc' = "done"
    /\ Store(gamma_basic(src, dst, args.c, args.g))
    /\ PointFrame

NextPoint == Invert \/ Gamma

SpecPoint == InitPoint /\ [][NextPoint]_vars

----------------------------------------------------------------------------
(* The specification of the heap under open, close and gaussianBlur *)

\* the caller's images: src, dst and the kernel
CallerBlocks(s, k) ==
    {Block(1, "basic", s.cols, s.rows), Block(2, "basic", s.cols, s.rows),
     Block(3, "basic", k.cols, k.rows)}

InitHeap ==
    /\ Unused
    /\ src \in Images(HeapMaxPixels, Binary)
    /\ aliased = FALSE
    /\ dst = newBasicImage(src.cols, src.rows, 2)
    /\ kernel \in { k \in Kernels : k.cols * k.rows <= HeapMaxKernel }
    /\ args = [kernelSize |-> 1]
    /\ local = [live |-> CallerBlocks(src, kernel),
                owned |-> CallerBlocks(src, kernel), calls |-> 0]
    /\ connected = 4
    /\ low = 0
    /\ high = 0
    /\ input = src.data

HeapFrame ==
    UNCHANGED <<aliased, kernel, connected, low, high, input, ret, changes,
                currentBlob, run, firstRet, args>>

\* the caller may call another operator when the last one has returned
HeapIdle == pc \in {"call", "done"} /\ local.calls < HeapMaxCalls

\* open(src, dst, kernel)
HeapOpen ==
    /\ HeapIdle
    /\ op' = "open"
    /\ pc' = "done"
    /\ Store(open_basic(src, dst, kernel))
    /\ local' = [local EXCEPT !.live = MorphHeap(@, src), !.calls = @ + 1]
    /\ HeapFrame

\* close(src, dst, kernel)
HeapClose ==
    /\ HeapIdle
    /\ op' = "close"
    /\ pc' = "done"
    /\ Store(close_basic(src, dst, kernel))
    /\ local' = [local EXCEPT !.live = MorphHeap(@, src), !.calls = @ + 1]
    /\ HeapFrame

\* gaussianBlur(src, dst, kernelSize, sigma)
HeapBlur ==
    /\ HeapIdle
    /\ op' = "gaussianBlur"
    /\ pc' = "done"
    /\ Store(gaussianBlur_basic(src, dst, args.kernelSize))
    /\ local' = [local EXCEPT !.live = BlurHeap(@, args.kernelSize),
                              !.calls = @ + 1]
    /\ HeapFrame

\* the caller deletes its images after the last call
HeapRelease ==
    /\ pc = "done"
    /\ pc' = "released"
    /\ local' = [local EXCEPT !.live = deleteImage(@, local.owned)]
    /\ UNCHANGED <<op, src, dst>>
    /\ HeapFrame

NextHeap == HeapOpen \/ HeapClose \/ HeapBlur \/ HeapRelease

SpecHeap == InitHeap /\ [][NextHeap]_vars

----------------------------------------------------------------------------
(* The specification of histogram and the operators that read it *)

\* the numbers of columns and rows
HistShapes ==
    {<<HistSide - 1, HistSide + 1>>, <<HistSide, HistSide>>,
     <<HistSide, HistSide + 1>>}

\* an image whose first few pixels (none, one or the first row) are a and
\* all others b
Plain(cols, rows, few, a, b) ==
    Image(cols, rows, SubSeq([i \in 1..(cols * rows) |-> IF i <= few THEN a ELSE b],
                             1, cols * rows))

InitHistogram ==
    /\ Unused
    /\ \E shape \in HistShapes, a, b \in {0, 1, 200} :
          \E few \in {0, 1, shape[1]} :
             src = Plain(shape[1], shape[2], few, a, b)
    /\ aliased = FALSE
    /\ dst = NoImage
    /\ args = <<>>
    /\ local = <<>>
    /\ kernel = NoImage
    /\ connected = 4
    /\ low = 0
    /\ high = 0
    /\ input = <<>>

HistogramFrame ==
    UNCHANGED <<src, dst, aliased, kernel, connected, low, high, input,
                changes, currentBlob, run, firstRet, args>>

\* histogram(img, hist)
Histogram ==
    /\ pc = "call"
    /\ op' = "histogram"
    /\ pc' = "done"
    /\ local' = [hist |-> histogram_basic(src.data)]
    /\ UNCHANGED ret
    /\ HistogramFrame

\* threshold2Means: the histogram and the first turn of while(1), up to the
\* counts of the two partitions
HistogramMeans ==
    /\ pc = "call"
    /\ op' = "threshold2Means"
    /\ pc' = "means"
    /\ local' = TwoMeans(src.data, InitialT(src.data))
    /\ UNCHANGED ret
    /\ HistogramFrame

\* labelBlobs on an image that the scans have labelled: the histogram of the
\* result and the count of the labels
HistogramLabels ==
    /\ pc = "call"
    /\ GreyValuesOf(src.data) \subseteq 0..254
    /\ op' = "labelBlobs"
    /\ pc' = "done"
    /\ local' = [hist |-> histogram_basic(src.data)]
    /\ ret' = BlobCount(histogram_basic(src.data))
    /\ HistogramFrame

NextHistogram == Histogram \/ HistogramMeans \/ HistogramLabels

SpecHistogram == InitHistogram /\ [][NextHistogram]_vars

----------------------------------------------------------------------------
(* Claims about threshold *)

\* C10: threshold sets dst[p] to 1 exactly where low <= src[p] <= high and
\* to 0 elsewhere, tags dst as a binary image, and leaves src as it was
\* when dst is another image.
C10_ThresholdRange ==
    (op = "threshold" /\ pc = "done") =>
        /\ \A p \in 1..Len(input) :
              dst.data[p] = IF low <= input[p] /\ input[p] <= high THEN 1 ELSE 0
        /\ dst.view = "BINARY"
        /\ (~aliased => src.data = input)

\* C10 witness: threshold(img, t, t) into another image has run on an image
\* that holds t and a value other than t
C10_Witness ==
    /\ op = "threshold"
    /\ pc = "done"
    /\ ~aliased
    /\ low = high
    /\ \E p, q \in 1..Len(input) : input[p] = low /\ input[q] # low

----------------------------------------------------------------------------
(* Claims about threshold2Means and thresholdOtsu *)

\* the call ran on an image that holds the values 10 and 200 and no other
TwoLevels == GreyValuesOf(input) = {10, 200}

\* the pixels that were 200 are 1 - brightness, those that were 10 are
\* brightness
Separated ==
    \A p \in 1..Len(input) :
        dst.data[p] = IF input[p] = 200 THEN 1 - args.brightness
                      ELSE args.brightness

\* C11: on an image that holds exactly the values 10 and 200, both present,
\* thresholdOtsu selects a threshold strictly between 10 and 200 and sets
\* the pixels that were 200 to 1 - brightness and those that were 10 to
\* brightness.
C11_OtsuSeparatesTwoLevels ==
    (op = "thresholdOtsu" /\ pc = "done" /\ TwoLevels) =>
        /\ 10 < local.best_threshold
        /\ local.best_threshold < 200
        /\ Separated

\* C12: on an image that holds exactly the values 10 and 200, both present,
\* threshold2Means returns, with a threshold strictly between 10 and 200,
\* the pixels that were 200 set to 1 - brightness and those that were 10 to
\* brightness.
C12_TwoMeansSeparatesTwoLevels ==
    (op = "threshold2Means" /\ TwoLevels) =>
        /\ pc # "fault"
        /\ (pc = "done" => /\ 10 < local.T
                           /\ local.T < 200
                           /\ Separated)

\* C12 witness: threshold2Means has returned on an image that holds a 10
\* and a 200, for a bright and for a dark object alike
C12_Witness ==
    /\ op = "threshold2Means"
    /\ pc = "done"
    /\ TwoLevels
    /\ Len(input) > 2
    /\ args.brightness = 1

\* C13: threshold2Means never divides by zero: the mean of an empty
\* partition is taken as 0, and the call returns with dst a binary image.
C13_TwoMeansNoDivisionByZero ==
    (op = "threshold2Means" /\ pc \in {"done", "fault"}) =>
        /\ pc = "done"
        /\ dst.view = "BINARY"
        /\ \A p \in 1..Len(dst.data) : dst.data[p] \in Binary

----------------------------------------------------------------------------
(* Claims about the morphology operators *)

\* the kernel offsets (kc, kr), relative to the centre, where the kernel is 1
KernelOnes(k) ==
    { <<kc - (k.cols \div 2), kr - (k.rows \div 2)>> :
        <<kc, kr>> \in { x \in (0..(k.cols - 1)) \X (0..(k.rows - 1)) :
                            k.data[x[2] * k.cols + x[1] + 1] = 1 } }

InsideImage(c, r) == c >= 0 /\ c < src.cols /\ r >= 0 /\ r < src.rows

PixelPositions == (0..(src.cols - 1)) \X (0..(src.rows - 1))

\* C9: erode sets dst[p] to 1 exactly when src is 1 under every 1 of the
\* kernel that falls inside the image, and to 0 otherwise.
C9_ErodeDefinition ==
    (op = "erode" /\ pc = "done") =>
        \A <<c, r>> \in PixelPositions :
            BASIC_PIXEL(dst, c, r) =
                IF \A <<kc, kr>> \in KernelOnes(kernel) :
                       InsideImage(c + kc, r + kr) =>
                           input[(r + kr) * src.cols + (c + kc) + 1] = 1
                THEN 1 ELSE 0

\* C9 witness: erode has run with a kernel that has a 1 away from its centre,
\* and kept a pixel whose window sticks out of the image and cleared another
C9_Witness ==
    /\ op = "erode"
    /\ pc = "done"
    /\ \E <<c, r>> \in PixelPositions :
          /\ BASIC_PIXEL(dst, c, r) = 1
          /\ \E <<kc, kr>> \in KernelOnes(kernel) : ~InsideImage(c + kc, r + kr)
    /\ \E <<c, r>> \in PixelPositions :
          /\ BASIC_PIXEL(dst, c, r) = 0
          /\ input[r * src.cols + c + 1] = 1

\* C8: opening never adds a foreground pixel: dst[p] = 1 only where src[p] = 1.
C8_OpenAntiExtensive ==
    (op = "open" /\ pc = "done") =>
        \A p \in 1..Len(input) : dst.data[p] = 1 => input[p] = 1

\* the kernel equals its own reflection through the centre
SymmetricKernel(k) ==
    \A <<kc, kr>> \in KernelOnes(k) : <<-kc, -kr>> \in KernelOnes(k)

\* Opening with a kernel that is symmetric about its centre adds no pixel.
OpenSymmetricAntiExtensive ==
    (op = "open" /\ pc = "done" /\ SymmetricKernel(kernel)) =>
        \A p \in 1..Len(input) : dst.data[p] = 1 => input[p] = 1

----------------------------------------------------------------------------
(* Claims about removeBorderBlobs and fillHoles *)

\* positions <<c, r>> of the image
Positions == (0..(src.cols - 1)) \X (0..(src.rows - 1))

\* the positions on one of the four borders
OnBorder == { p \in Positions : \/ p[1] \in {0, src.cols - 1}
                                \/ p[2] \in {0, src.rows - 1} }

\* the pixel of the call's input at position p
InputAt(p) == input[p[2] * src.cols + p[1] + 1]

\* p and q are neighbours under the connectivity conn
Adjacent(p, q, conn) ==
    LET dc == IF p[1] >= q[1] THEN p[1] - q[1] ELSE q[1] - p[1]
        dr == IF p[2] >= q[2] THEN p[2] - q[2] ELSE q[2] - p[2]
    IN  IF conn = 4 THEN dc + dr = 1
        ELSE dc <= 1 /\ dr <= 1 /\ dc + dr >= 1

\* the positions of among that are connected to a position of seeds through
\* positions of among
RECURSIVE ConnectedTo(_, _, _)
ConnectedTo(seeds, among, conn) ==
    LET around == UNION { { q \in ((p[1] - 1)..(p[1] + 1)) \X ((p[2] - 1)..(p[2] + 1)) :
                              Adjacent(p, q, conn) } : p \in seeds }
        more == seeds \cup (around \cap among)
    IN  IF more = seeds THEN seeds ELSE ConnectedTo(more, among, conn)

InputPixels(v) == { p \in Positions : InputAt(p) = v }

\* the foreground pixels of the input whose blob touches a border
BorderBlobPixels ==
    ConnectedTo(InputPixels(1) \cap OnBorder, InputPixels(1), connected)

\* the background pixels of the input connected to the background of a border
OutsideBackground ==
    ConnectedTo(InputPixels(0) \cap OnBorder, InputPixels(0), connected)

RbbResult ==
    \A p \in Positions :
        BASIC_PIXEL(dst, p[1], p[2]) =
            IF InputAt(p) = 1 /\ p \notin BorderBlobPixels THEN 1 ELSE 0

FhResult ==
    \A p \in Positions :
        BASIC_PIXEL(dst, p[1], p[2]) =
            IF p \in OutsideBackground THEN 0 ELSE 1

\* C6: removeBorderBlobs called in place returns with 1 exactly at the
\* foreground pixels whose blob touches no border, and 0 everywhere else.
C6_RemoveBorderBlobsInPlace ==
    (op = "removeBorderBlobs" /\ aliased /\ pc \in {"done", "fault"}) =>
        (pc = "done" /\ RbbResult)

\* C7: fillHoles called in place returns with 0 exactly at the background
\* pixels connected through the background to the background of a border,
\* and 1 everywhere else (the whole image is 1 when no border pixel is 0).
C7_FillHolesInPlace ==
    (op = "fillHoles" /\ aliased /\ pc \in {"done", "fault"}) =>
        (pc = "done" /\ FhResult)

\* The loops of the two operators stay inside the pixel array for images of
\* two or more rows that have two or more columns or exactly two rows.
LoopsInside == src.rows >= 2 /\ (src.cols >= 2 \/ src.rows = 2)

\* In place and with the loops inside the array, removeBorderBlobs returns
\* the result C6 describes.
RbbInPlaceInside ==
    (op = "removeBorderBlobs" /\ aliased /\ LoopsInside) =>
        /\ pc # "fault"
        /\ pc = "done" => RbbResult

\* In place and with the loops inside the array, fillHoles returns the
\* result C7 describes.
FhInPlaceInside ==
    (op = "fillHoles" /\ aliased /\ LoopsInside) =>
        /\ pc # "fault"
        /\ pc = "done" => FhResult

----------------------------------------------------------------------------
(* Claims about labelBlobs *)

\* the foreground pixels of the input with no foreground neighbour before
\* them in raster order: every blob holds one, its first pixel
FirstPixels ==
    LET foreground == InputPixels(1)
    IN  { p \in foreground :
            \A q \in {<<p[1] - 1, p[2] - 1>>, <<p[1], p[2] - 1>>,
                       <<p[1] + 1, p[2] - 1>>, <<p[1] - 1, p[2]>>} :
                ~(q \in foreground /\ Adjacent(p, q, connected)) }

\* the connected components of the foreground of the input
Blobs ==
    LET foreground == InputPixels(1)
    IN  { ConnectedTo({p}, foreground, connected) : p \in FirstPixels }

\* the positions where dst holds the value v
Labelled(v) == { p \in Positions : BASIC_PIXEL(dst, p[1], p[2]) = v }

\* labelBlobs has returned
LabelDone == op = "labelBlobs" /\ pc = "done"

\* dst is the input with every blob numbered, with the numbers 1..ret
CountedAndNumbered(blobs) ==
    /\ ret = Cardinality(blobs)
    /\ Labelled(0) = InputPixels(0)
    /\ \A p \in InputPixels(1) : BASIC_PIXEL(dst, p[1], p[2]) \in 1..ret
    /\ { Labelled(v) : v \in 1..ret } = blobs

\* C1: for an image whose foreground has 0 to 254 connected components,
\* labelBlobs returns the number n of components, dst is 0 on the background,
\* and the foreground pixels with the label v are one component, for every
\* v in 1..n.
C1_CountsAndNumbersBlobs ==
    LabelDone =>
        LET blobs == Blobs
        IN  Cardinality(blobs) <= 254 => CountedAndNumbered(blobs)

\* C2: labelBlobs returns 1 for an image of any size whose foreground is one
\* connected component.
C2_SingleBlobReturnsOne ==
    (LabelDone /\ InputPixels(1) # {}) =>
        (ConnectedTo({CHOOSE p \in InputPixels(1) : TRUE}, InputPixels(1), connected)
            = InputPixels(1)
         => ret = 1)

\* the foreground pixels of the input without a foreground neighbour
IsolatedPixels ==
    LET foreground == InputPixels(1)
    IN  { p \in foreground :
            \A q \in ((p[1] - 1)..(p[1] + 1)) \X ((p[2] - 1)..(p[2] + 1)) :
                ~(q \in foreground /\ Adjacent(p, q, connected)) }

\* C3: labelBlobs returns 0 for an image with 255 or more isolated
\* foreground pixels.
C3_TooManyBlobsReturnsZero ==
    (LabelDone /\ Cardinality(IsolatedPixels) >= 255) => ret = 0

\* labelBlobs has given up at the 255th isolated pixel of an image
C3_Witness ==
    /\ LabelDone
    /\ Cardinality(IsolatedPixels) >= 255
    /\ currentBlob = 255
    /\ changes = 1
    /\ ret = 0

\* C4: when labelBlobs has returned, no pixel of dst holds the marker 255.
C4_NoMarkerOnReturn ==
    LabelDone => \A i \in 1..Len(dst.data) : dst.data[i] # 255

\* C5: labelBlobs run on its own result, with every label set back to 1,
\* returns what the first run returned.
C5_SecondRunSameCount ==
    (LabelDone /\ run = 2) => ret = firstRet

\* the second run has returned the count of two or more blobs
C5_Witness ==
    /\ LabelDone
    /\ run = 2
    /\ ret = firstRet
    /\ ret >= 2
    /\ \E i \in 1..Len(dst.data) : dst.data[i] = ret

\* Images of two or more rows and columns: labelBlobs numbers their blobs
\* as C1 describes whenever it does not give up.
LabelsInsideCorrect ==
    (LabelDone /\ src.rows >= 2 /\ src.cols >= 2 /\ currentBlob < 255) =>
        CountedAndNumbered(Blobs)

----------------------------------------------------------------------------
(* Claims about binaryEdgeDetect *)

\* the positions inside the image that are neighbours of p under the
\* connectivity of the call
NeighboursOf(p) == { q \in Positions : Adjacent(p, q, connected) }

\* p is a foreground pixel of the input without a background neighbour
\* inside the image
FullyInterior(p) ==
    InputAt(p) = 1 /\ \A q \in NeighboursOf(p) : InputAt(q) = 1

\* p is a foreground pixel of the input whose neighbours inside the image
\* are all background
Isolated(p) ==
    InputAt(p) = 1 /\ \A q \in NeighboursOf(p) : InputAt(q) = 0

\* the pixel of dst at position p
DstAt(p) == dst.data[p[2] * dst.cols + p[1] + 1]

\* C14, as stated: binaryEdgeDetect sets dst to 0 at every background pixel,
\* at every fully interior foreground pixel and at every isolated foreground
\* pixel, and to 1 at every other foreground pixel.
C14_IsolatedPixelsCleared ==
    (op = "binaryEdgeDetect" /\ pc = "done") =>
        \A p \in Positions :
            DstAt(p) = IF InputAt(p) = 1 /\ ~FullyInterior(p) /\ ~Isolated(p)
                       THEN 1 ELSE 0

\* C14, amended: binaryEdgeDetect sets dst to 1 at every foreground pixel
\* that has a background neighbour inside the image (the isolated pixels
\* among them) and to 0 at every other pixel; no pixel holds the marker 2
\* on return.
C14_EdgeOfForeground ==
    (op = "binaryEdgeDetect" /\ pc = "done") =>
        /\ \A p \in Positions :
              DstAt(p) = IF InputAt(p) = 1 /\ ~FullyInterior(p) THEN 1 ELSE 0
        /\ \A i \in 1..Len(dst.data) : dst.data[i] # 2

\* C14 witness: binaryEdgeDetect has returned on an image with a fully
\* interior pixel, an isolated pixel that has neighbours, and a background
\* pixel
C14_Witness ==
    /\ op = "binaryEdgeDetect"
    /\ pc = "done"
    /\ \E p, q \in Positions :
          /\ FullyInterior(p)
          /\ NeighboursOf(p) # {}
          /\ Isolated(q)
          /\ NeighboursOf(q) # {}
          /\ DstAt(q) = 1
          /\ DstAt(p) = 0

----------------------------------------------------------------------------
(* Claims about centroid *)

\* the positions of the pixels of the blob centroid was called for
BlobPixels == { p \in Positions : InputAt(p) = args.blobnr }

\* the sum of coordinate k (1 = column, 2 = row) over a set of positions
RECURSIVE SumOfCoordinate(_, _)
SumOfCoordinate(ps, k) ==
    IF ps = {} THEN 0
    ELSE LET p == CHOOSE q \in ps : TRUE
         IN  p[k] + SumOfCoordinate(ps \ {p}, k)

\* n is an integer nearest to m / m_00
Nearest(n, m, m_00) ==
    /\ 2 * (m - n * m_00) <= m_00
    /\ 2 * (n * m_00 - m) <= m_00

\* the circle of radius r about c lies inside the image
InsideOfImage(c, r) ==
    /\ c[1] - r >= 0
    /\ c[1] + r <= src.cols - 1
    /\ c[2] - r >= 0
    /\ c[2] + r <= src.rows - 1

\* C18: for a blob with at least one pixel, centroid returns cc = m10 / m00
\* and rc = m01 / m00, each rounded to the nearest integer (m00 the number
\* of pixels, m10 the sum of the columns and m01 the sum of the rows of the
\* blob's pixels); for a filled discrete circle about (cx, cy) that lies
\* inside the image it returns (cx, cy).
C18_CentroidRounded ==
    (op = "centroid" /\ pc = "done" /\ BlobPixels # {}) =>
        /\ Nearest(ret[1], SumOfCoordinate(BlobPixels, 1), Cardinality(BlobPixels))
        /\ Nearest(ret[2], SumOfCoordinate(BlobPixels, 2), Cardinality(BlobPixels))
        /\ \A c \in BlobPixels : \A r \in 0..src.cols :
              (InsideOfImage(c, r) /\ BlobPixels = Disc(c[1], c[2], r)) => ret = c

\* C18 witness: centroid has returned for a circle of 13 pixels that is not
\* in the middle of the image, next to a pixel with another label
C18_Witness ==
    /\ op = "centroid"
    /\ pc = "done"
    /\ \E c \in BlobPixels :
          /\ InsideOfImage(c, 2)
          /\ BlobPixels = Disc(c[1], c[2], 2)
          /\ c[1] # c[2]
          /\ 2 * c[1] # src.cols - 1
          /\ ret = c
    /\ \E p \in Positions : InputAt(p) \notin {0, args.blobnr}

----------------------------------------------------------------------------
(* Claims about WBFE_evaluate *)

\* WBFE_evaluate has returned
Returned == local.stage = "return" /\ pc = "done"

\* the stages that have run are the first stages of Stages in their order
StagesInOrder ==
    /\ Len(local.done) <= Len(Stages)
    /\ local.done = SubSeq(Stages, 1, Len(local.done))

----------------------------------------------------------------------------
\* the pixels of the labelled image that hold the label i
PixelsOf(i) == { p \in Positions : BASIC_PIXEL(src, p[1], p[2]) = i }

\* the blobs labelBlobs has yielded whose pixel count is at least
\* area_threshold
QualifyingBlobs ==
    { i \in 1..local.blob_count : Cardinality(PixelsOf(i)) >= args.area_threshold }

\* the score of blob i
ScoreOf(i) == Score(src, i, blobAnalyse_basic(src, i))

\* the score a is greater than the score b beyond doubt
DefinitelyGreater(a, b) ==
    /\ a.kind # "nan"
    /\ b.kind # "nan"
    /\ LessThan(b, a) = {TRUE}

\* C15: when labelBlobs yields no blob whose pixel count is at least
\* area_threshold (zero blobs included), WBFE_evaluate ends in an explicit
\* 'no match' outcome: it does not call centroid with the unset blob id -1
\* and does not return an offset pair.
C15_NoMatchOutcome ==
    (Returned /\ QualifyingBlobs = {}) =>
        ~(\E k \in 1..Len(local.done) : local.done[k] = "centroid")

\* C16: when at least one blob has a pixel count of at least
\* area_threshold, the blob passed to centroid is such a blob, its score
\* (1 - roundness + eccentricity) / 2 is no greater than the score of any
\* other such blob, and the pair returned is (centroid column - target x,
\* centroid row - target y) of that blob.
C16_BestBlobSelected ==
    (Returned /\ QualifyingBlobs # {}) =>
        LET selected == U8(local.best_match)
        IN  /\ selected \in QualifyingBlobs
            /\ \A other \in QualifyingBlobs :
                  ~DefinitelyGreater(ScoreOf(selected), ScoreOf(other))
            /\ Nearest(ret[1] + args.target[1],
                       SumOfCoordinate(PixelsOf(selected), 1),
                       Cardinality(PixelsOf(selected)))
            /\ Nearest(ret[2] + args.target[2],
                       SumOfCoordinate(PixelsOf(selected), 2),
                       Cardinality(PixelsOf(selected)))

\* the selection of C16 for the runs in which every blob with a pixel count
\* of at least area_threshold has a score that is a number
BestBlobSelectedAmongNumbers ==
    (\A i \in QualifyingBlobs : ScoreOf(i).kind # "nan") => C16_BestBlobSelected

\* C17: every run of WBFE_evaluate executes its stages exactly once each in
\* the order gaussianBlur, contrastStretchFast, gamma, threshold, invert,
\* fillHoles, labelBlobs, scoring, centroid, each stage completing before
\* the next starts and none being entered again: at every moment the stages
\* that have run are the first stages of that order, the run does not stop
\* short of a stage, and it returns after all nine.
C17_StagesOnceInOrder ==
    /\ StagesInOrder
    /\ pc # "fault"
    /\ (Returned => local.done = Stages)

\* the order of C17 alone: the stages that have run are the first stages of
\* the order, also in a run that stops in a fault, and a run that returns
\* has run all nine
StagesInOrderUntilFault ==
    /\ StagesInOrder
    /\ (Returned => local.done = Stages)

----------------------------------------------------------------------------
(* Claims about waterShed *)

WaterShedDone == op = "waterShed" /\ pc = "done"

\* the pixels of the input at the height the flooding starts from: each of
\* them lies in a catchment basin
LowestPixels == { i \in 1..Len(input) : input[i] = args.minh }

BasinsNumbered ==
    /\ ret # 0 => /\ 255 \notin GreyValuesOf(dst.data)
                  /\ GreyValuesOf(dst.data) \ {0} = 1..ret
    /\ (args.minh = 1 /\ Cardinality(IsolatedPixels) >= 255) => ret = 0

\* C19: waterShed returns the number k of catchment basins: after a nonzero
\* return dst holds no 255 and its nonzero values are exactly 1..k; it
\* returns 0 when there are 255 or more single-pixel basins, and it does not
\* return 0 for an image of fewer than 255 pixels that has a pixel at the
\* starting height.
C19_BasinsCounted ==
    WaterShedDone =>
        /\ BasinsNumbered
        /\ (Len(input) < 255 /\ LowestPixels # {}) => ret >= 1

\* the same for images of at least two rows and two columns
BasinsCountedInTwoDimensions ==
    (WaterShedDone /\ src.rows >= 2 /\ src.cols >= 2) =>
        /\ BasinsNumbered
        /\ (Len(input) < 255 /\ LowestPixels # {}) => ret >= 1

\* the numbering alone, for every image
BasinsNumberedOnReturn == WaterShedDone => BasinsNumbered

\* C20: a pixel of dst that was set to 0 as part of a watershed in step 4 or
\* step 5 holds 0 after every later scan and in the returned image.
C20_WatershedStays ==
    \A at \in local.lines : dst.data[at + 1] = 0

\* waterShed has returned two or more basins, and a pixel that became part
\* of a watershed below the last height still holds 0
C20_Witness ==
    /\ WaterShedDone
    /\ ret >= 2
    /\ \E at \in local.lines : /\ input[at + 1] < local.maxh
                               /\ dst.data[at + 1] = 0

----------------------------------------------------------------------------
(* Claims about termination *)

Ended == pc \in {"done", "fault"}

\* C21: removeBorderBlobs terminates for every binary image and
\* connectivity, with dst the same buffer as src and with a distinct dst:
\* every call reaches its return.
C21_RemoveBorderBlobsTerminates ==
    <>(op = "fillHoles" \/ Ended)

\* the call of removeBorderBlobs with dst the same buffer as src reaches its
\* return
RemoveBorderBlobsInPlaceTerminates ==
    <>(op = "fillHoles" \/ ~aliased \/ Ended)

\* the call of fillHoles reaches its return
FillHolesTerminates ==
    <>(op = "removeBorderBlobs" \/ Ended)

----------------------------------------------------------------------------
\* a turn of the loop of removeBorderBlobs that sets changes and leaves the
\* image as it was: the next turn does the same
Spinning ==
    /\ op = "removeBorderBlobs"
    /\ pc = "scan"
    /\ changes = 1
    /\ LET r == ScanBoth("removeBorderBlobs", src, dst, connected)
       IN  ~r.outside /\ r.flag = 1 /\ r.d = dst

\* removeBorderBlobs spins on the image of 3 x 3 pixels with ones at the
\* middle of the top row and at the centre, dst a distinct buffer of zeroes
SpinningOnDistinctBuffer ==
    /\ Spinning
    /\ ~aliased
    /\ src.data = <<0, 1, 0, 0, 1, 0, 0, 0, 0>>
    /\ dst.data = <<0, 2, 0, 0, 2, 0, 0, 0, 0>>

\* with dst the same buffer as src no turn of the loop spins
NeverSpinningInPlace == aliased => ~Spinning

----------------------------------------------------------------------------
\* a turn of while(1) of threshold2Means is about to run with no pixel above
\* T or no pixel below T
EmptyPartition ==
    /\ op = "threshold2Means"
    /\ pc = "means"
    /\ LET m == TwoMeans(input, local.T)
       IN  m.right_count = 0 \/ m.left_count = 0

\* C22: threshold2Means terminates: a call in which both partitions are
\* non-empty in every turn reaches new_T == T and returns; the thresholds do
\* not cycle.
C22_TwoMeansTerminates ==
    <>(Ended \/ EmptyPartition)

\* threshold2Means has returned after the threshold moved twice, with both
\* partitions non-empty in all three turns
C22_Witness ==
    /\ op = "threshold2Means"
    /\ pc = "done"
    /\ LET first  == TwoMeans(input, InitialT(input))
           second == TwoMeans(input, first.new_T)
           third  == TwoMeans(input, second.new_T)
       IN  /\ \A m \in {first, second, third} :
                 m.right_count # 0 /\ m.left_count # 0
           /\ first.new_T # InitialT(input)
           /\ second.new_T # first.new_T
           /\ third.new_T = second.new_T
           /\ local.T = second.new_T

----------------------------------------------------------------------------
\* the pixels of dst that hold a label keep it or get a lower one
LabelsOnlyLowered ==
    \A i \in 1..Len(dst.data) :
        dst.data[i] \in 1..254 =>
            dst'.data[i] >= 1 /\ dst'.data[i] <= dst.data[i]

\* C23: labelBlobs terminates for every binary image: a turn of the
\* relaxation never raises the label of a pixel that has one, and every call
\* reaches its return (with the number of blobs, or with 0 when it gives up).
C23_LabelBlobsTerminates ==
    /\ [][(op = "labelBlobs" /\ pc = "scan" /\ changes = 1) => LabelsOnlyLowered]_vars
    /\ (op = "labelBlobs" /\ pc = "scan") ~> (pc = "done")

\* labelBlobs has returned fewer blobs than it handed out labels: pixels
\* that held a label were given a lower one
C23_Witness ==
    /\ LabelDone
    /\ ret >= 1
    /\ currentBlob > ret + 1

----------------------------------------------------------------------------
(* Claims about the buffers of the operators *)

\* the operators that read a window of pixels around the pixel they write
WindowOperators == {"gaussianBlur", "convolution", "erode", "dilate"}

\* C24: WBFE_evaluate never calls a window operator with src and dst the
\* same buffer: when such a stage is about to run, or has just run, dst is
\* not src.
C24_WindowOperatorsNotInPlace ==
    (local.stage \in WindowOperators \/ op \in WindowOperators) => ~aliased

----------------------------------------------------------------------------
(* Claims about blobAnalyse *)

\* the positions <<col, row>> of the pixels of the input that hold the blob
AnalysedPixels ==
    { <<(i - 1) % src.cols, (i - 1) \div src.cols>> :
        i \in { k \in 1..Len(input) : input[k] = args.blobnr } }

\* the largest and the smallest of a non-empty set of numbers
Highest(S) == CHOOSE x \in S : \A y \in S : x >= y

Lowest(S) == CHOOSE x \in S : \A y \in S : x <= y

AnalyseDone == op = "blobAnalyse" /\ pc = "done"

\* C25: for a blob that is present, blobAnalyse reports its number of
\* pixels, width = max column - min column + 1 and height = max row - min
\* row + 1.
C25_BoundingBoxAndCount ==
    (AnalyseDone /\ AnalysedPixels # {}) =>
        /\ ret.nof_pixels = Cardinality(AnalysedPixels)
        /\ ret.width = Highest({ p[1] : p \in AnalysedPixels })
                       - Lowest({ p[1] : p \in AnalysedPixels }) + 1
        /\ ret.height = Highest({ p[2] : p \in AnalysedPixels })
                        - Lowest({ p[2] : p \in AnalysedPixels }) + 1

\* the number of pixels alone
PixelsCounted ==
    AnalyseDone => ret.nof_pixels = Cardinality(AnalysedPixels)

----------------------------------------------------------------------------
(* Claims about invert and gamma *)

\* what the operator that has run makes of the pixel v
Transformed(v) ==
    IF op = "invert" THEN 1 - v ELSE GammaLUT(v, args.c, args.g)

\* C26: invert and gamma transform every pixel of the image, whatever its
\* size: after invert dst holds 1 - v, after gamma LUT[v], where the input
\* holds v.
C26_EveryPixelTransformed ==
    (op \in {"invert", "gamma"} /\ pc = "done") =>
        \A i \in 1..Len(input) : dst.data[i] = Transformed(input[i])

\* the same for the images whose number of pixels is a multiple of 4
WholeWordsTransformed ==
    (op \in {"invert", "gamma"} /\ pc = "done" /\ Len(input) % 4 = 0) =>
        \A i \in 1..Len(input) : dst.data[i] = Transformed(input[i])

----------------------------------------------------------------------------
\* C27: removeBorderBlobs and fillHoles called with a distinct dst return
\* with dst holding the result of the call in place, whatever dst held
\* before, and leave src as it was.  (In place and with the loops inside the
\* array the results are RbbResult and FhResult.)
C27_DistinctBufferAsInPlace ==
    (op \in {"removeBorderBlobs", "fillHoles"} /\ ~aliased /\ LoopsInside
         /\ pc = "done") =>
        /\ src.data = input
        /\ op = "removeBorderBlobs" => RbbResult
        /\ op = "fillHoles" => FhResult

\* src is left as it was
DistinctBufferLeavesSrc ==
    (op \in {"removeBorderBlobs", "fillHoles"} /\ ~aliased /\ LoopsInside) =>
        src.data = input

----------------------------------------------------------------------------
\* removeBorderBlobs into a distinct dst that held zeroes has returned all
\* zeroes for the image of 3 x 3 pixels with a one at the centre only
InnerBlobLost ==
    /\ op = "removeBorderBlobs"
    /\ pc = "done"
    /\ ~aliased
    /\ input = <<0, 0, 0, 0, 1, 0, 0, 0, 0>>
    /\ src.cols = 3
    /\ dst.data = <<0, 0, 0, 0, 0, 0, 0, 0, 0>>

----------------------------------------------------------------------------
\* C28: for every image of at least one row and one column the loops of
\* removeBorderBlobs and fillHoles read and write inside the pixel array
\* only: no call ends in the fault of an access outside it.
C28_LoopsStayInside ==
    op \in {"removeBorderBlobs", "fillHoles"} => pc # "fault"

\* the same for the images of two or more rows that have two or more columns
\* or exactly two rows
LoopsStayInsideFromTwoRows ==
    (op \in {"removeBorderBlobs", "fillHoles"} /\ LoopsInside) => pc # "fault"

----------------------------------------------------------------------------
(* Claims about allocation *)

\* C29: after any sequence of calls to open, close and gaussianBlur the
\* live buffers are exactly the buffers the caller owned before the calls:
\* no temporary image or kernel remains allocated.
C29_TemporariesReleased ==
    (op \in {"open", "close", "gaussianBlur"} /\ pc = "done") =>
        local.live = local.owned

\* every call leaves one more block on the heap, and never frees one of the
\* caller's
OneBlockLeftPerCall ==
    (op \in {"open", "close", "gaussianBlur"} /\ pc = "done") =>
        /\ local.owned \subseteq local.live
        /\ Cardinality(local.live \ local.owned) = local.calls

\* when the caller has deleted its own images the temporaries are still there
LeftOnTheHeap ==
    pc = "released" =>
        /\ Cardinality(local.live) = local.calls
        /\ \A b \in local.live : b.id > 3

----------------------------------------------------------------------------
(* Claims about histogram *)

\* the number of pixels of data that hold v
PixelsEqual(data, v) == Cardinality({ i \in 1..Len(data) : data[i] = v })

\* C30: histogram fills hist[v] with the exact number of pixels equal to v
\* for every grey value v, also when more than 65,535 pixels share one
\* value, so that the operators that read the histogram see true counts.
C30_HistogramExact ==
    (op \in {"histogram", "labelBlobs"} /\ pc = "done") =>
        LET occurring == GreyValuesOf(src.data)
        IN  \A v \in 0..255 :
               local.hist[v] = IF v \in occurring THEN PixelsEqual(src.data, v) ELSE 0

\* the bins of the values that fewer than 65,536 pixels hold are exact, and
\* every bin holds the count modulo 65,536
BinsExactBelowWrap ==
    (op \in {"histogram", "labelBlobs"} /\ pc = "done") =>
        \A v \in GreyValuesOf(src.data) :
           /\ local.hist[v] = PixelsEqual(src.data, v) % 65536
           /\ PixelsEqual(src.data, v) < 65536 => local.hist[v] = PixelsEqual(src.data, v)

\* labelBlobs counts the labels, but for those that a multiple of 65,536
\* pixels hold
LabelsCountedBelowWrap ==
    (op = "labelBlobs" /\ pc = "done") =>
        ret = Cardinality({ v \in GreyValuesOf(src.data) \ {0} :
                              PixelsEqual(src.data, v) % 65536 # 0 })

\* threshold2Means sees whether a partition is empty when no value is held
\* by more than 65,535 pixels
PartitionsSeenBelowWrap ==
    (op = "threshold2Means" /\ pc = "means"
       /\ \A v \in GreyValuesOf(src.data) : PixelsEqual(src.data, v) < 65536) =>
        /\ (local.left_count = 0 <=>
              \A v \in GreyValuesOf(src.data) : v >= InitialT(src.data))
        /\ (local.right_count = 0 <=>
              \A v \in GreyValuesOf(src.data) : v <= InitialT(src.data))

\* a partition of 65,536 pixels is taken for an empty one
WrappedPartitionEmpty ==
    /\ op = "threshold2Means"
    /\ pc = "means"
    /\ local.left_count = 0
    /\ \E v \in GreyValuesOf(src.data) : v < InitialT(src.data)

====
